---- MODULE Spec2Model ----
(***************************************************************************)
(* Model of the bell-times decoder and reconciliation code of              *)
(* .dev/verify_bell_times.py.                                              *)
(*                                                                         *)
(* Text.  A Python string is a sequence of tokens.  Each of the ten        *)
(* markers the decoder looks for ("<array>", "</array>", "<struct>",       *)
(* "</struct>", "<name>", "</name>", "<value>", "</value>", "<i4>",        *)
(* "</i4>") is one token; every other token is a piece of plain text       *)
(* (" " is the whitespace token).  `m in line` is membership of the token, *)
(* line.find(m) the index of its first occurrence, and find(m) + len(m)    *)
(* the index just after it.                                                *)
(*                                                                         *)
(* Values.  A Python value is a record [t, v]: t = "int" with v a number,  *)
(* t = "str" with v a token sequence, t = "none" for None.  Values of      *)
(* different types are never equal, as in Python (5 != "5").               *)
(***************************************************************************)
EXTENDS Integers, Sequences, FiniteSets, TLC

VARIABLES
    \* parse_xml_bell_times: locals
    in_bell_times_array, in_struct, current_struct, current_member,
    in_value, value_content, structs,
    \* parse_xml_bell_times: control and result
    dpc,        \* "scan" while the for loop runs, "done" after return
    returned,   \* the list the function returned
    raised,     \* TRUE when the except clause was taken
    \* the input text, produced block by block
    pending,    \* lines of the current block not yet read by the loop
    nblocks,    \* blocks produced so far
    \* history of the scan
    branch,     \* the branch the last line took ("stray_close": a close marker alone)
    seenArrayClose, \* an array-close line has been processed
    skippedAfterClose, \* a line was skipped after a region had closed
    closed,     \* members of the struct the last struct-close saw (-1: none)
    expected,   \* records of the well-formed structs fed inside a region
    sent,       \* the value block being read, when the last block is one
    \* compare_bell_times: arguments, locals, control and result
    xml_data, json_data, xml_lookup, json_lookup, xml_keys, json_keys,
    common_keys, xml_only, json_only, matches, mismatches,
    sample_mismatches,
    field_details,  \* of the key compared last
    todo,       \* sorted(list(common_keys)): the keys the loop has yet to visit
    cpc,        \* "idle", "called", "lookup", "keys", "compare", "report", "done"
    result,     \* the value returned: "none" until the function returns
    match_rate, \* the match rate line printed: <<>> until it is printed
    \* validate_bell_times_data, validate_liss_data, validate_calendar_data,
    \* and the main() that calls one of them
    validator,  \* the function called: "bell_times", "liss" or "calendar"
    vdata,      \* its argument: bell_times_data, liss_data or calendar_data
    validation_issues,
    vsteps,     \* the checks the function has yet to make
    vchecked,   \* the checks it has made
    vpc,        \* "idle", "called", "check", "returned", "raised", "done", "uncaught"
    v_return,   \* the string the function returned
    validation_result,  \* main(): the result it logs
    \* SentralAPIClient._make_request: argument, locals, control and result
    retries, attempt, last_exception,
    response,   \* what the last transfer gave: a response or an exception
    rlog,       \* the sleeps and the transfers so far, in order
    rpc,        \* "idle", "loop", "handle", "done"
    req_return, \* the value returned: "pending" until the method returns
    \* generate_bell_times_json: the API's records, locals, control and result
    configured, \* SentralAPIClient.from_config gave a client
    held,       \* endpoint -> the number of records the API holds
    items,      \* endpoint -> days, periods, period_in_days
    offset,
    requested,  \* endpoint -> the offsets requested so far, in order
    stopped,    \* endpoint -> why its loop was left: "none" while it was not
    written,    \* the bell_times list written to the file
    gpc,        \* "idle", the endpoint being paged, "build", "done"
    gen_exception,  \* the exception caught by the except clause, or "None"
    gen_return, \* the tuple returned; success "pending" until then
    \* parse_xml_bell_times, where the pending name and the accumulation of
    \* the decoder come from
    name_own,   \* current_member was set by a name line of the struct now open
    acc_own,    \* the accumulation was opened in the struct now open, under such a name
    foreign     \* names of current_struct stored otherwise

dvars == <<in_bell_times_array, in_struct, current_struct, current_member,
           in_value, value_content, structs, dpc, returned, raised,
           pending, nblocks, branch, seenArrayClose, skippedAfterClose,
           closed, expected, sent>>

cvars == <<xml_data, json_data, xml_lookup, json_lookup, xml_keys, json_keys,
           common_keys, xml_only, json_only, matches, mismatches,
           sample_mismatches, field_details, todo, cpc, result, match_rate>>

vvars == <<validator, vdata, validation_issues, vsteps, vchecked, vpc, v_return,
           validation_result>>

rvars == <<retries, attempt, last_exception, response, rlog, rpc, req_return>>

gvars == <<configured, held, items, offset, requested, stopped, written, gpc,
           gen_exception, gen_return>>

tvars == <<name_own, acc_own, foreign>>

vars == <<dvars, cvars, vvars, rvars, gvars, tvars>>

----------------------------------------------------------------------------
(* Python values *)

PyNone == [t |-> "none", v |-> <<>>]

PyStr(s) == [t |-> "str", v |-> s]

PyInt(n) == [t |-> "int", v |-> n]

\* bool(x) for the values the decoder tests: None and "" are falsy
Truthy(x) == x.t = "str" /\ x.v # <<>>

----------------------------------------------------------------------------
(* Python string operations on token sequences *)

\* m in s
Contains(s, m) == \E i \in 1..Len(s) : s[i] = m

\* s.find(m), 0-based, -1 when absent
PyFind(s, m) ==
    IF Contains(s, m)
    THEN (CHOOSE i \in 1..Len(s) : s[i] = m /\ \A j \in 1..(i - 1) : s[j] # m) - 1
    ELSE -1

\* s[a:b] for 0 <= a, 0 <= b (empty when a >= b)
PySlice(s, a, b) ==
    LET hi == IF b > Len(s) THEN Len(s) ELSE b
    IN  IF a >= hi THEN <<>> ELSE SubSeq(s, a + 1, hi)

\* s.strip()
Strip(s) ==
    LET keep == {i \in 1..Len(s) : s[i] # " "}
    IN  IF keep = {} THEN <<>>
        ELSE LET lo == CHOOSE i \in keep : \A j \in keep : i <= j
                 hi == CHOOSE i \in keep : \A j \in keep : j <= i
             IN  SubSeq(s, lo, hi)

Digits == <<"0", "1", "2", "3", "4", "5", "6", "7", "8", "9">>

IsDigit(c) == \E d \in 1..10 : Digits[d] = c

DigitVal(c) == (CHOOSE d \in 1..10 : Digits[d] = c) - 1

RECURSIVE DecVal(_)
DecVal(s) ==
    IF s = <<>> THEN 0
    ELSE 10 * DecVal(SubSeq(s, 1, Len(s) - 1)) + DigitVal(s[Len(s)])

\* int(s): surrounding whitespace is dropped, one optional sign, then at
\* least one digit; anything else is a ValueError (ok = FALSE)
PyIntParse(s) ==
    LET t == Strip(s)
        signed == t # <<>> /\ t[1] \in {"-", "+"}
        body == IF signed THEN Tail(t) ELSE t
    IN  IF body # <<>> /\ \A i \in 1..Len(body) : IsDigit(body[i])
        THEN [ok |-> TRUE,
              n |-> IF signed /\ t[1] = "-" THEN 0 - DecVal(body) ELSE DecVal(body)]
        ELSE [ok |-> FALSE, n |-> 0]

RECURSIVE NatText(_)
NatText(n) ==
    IF n < 10 THEN <<Digits[n + 1]>>
    ELSE NatText(n \div 10) \o <<Digits[(n % 10) + 1]>>

\* str(n)
IntText(n) == IF n < 0 THEN <<"-">> \o NatText(0 - n) ELSE NatText(n)

----------------------------------------------------------------------------
(* Python dict with insertion order: a sequence of [name, value] entries *)

DictHas(d, k) == \E i \in 1..Len(d) : d[i].name = k

\* DictSet adding an entry for every assignment
DictSet_Append(d, k, v) == Append(d, [name |-> k, value |-> v])

\* d[k] = v: a new key goes last, an existing key keeps its place
DictSet(d, k, v) ==
    IF DictHas(d, k)
    THEN [i \in 1..Len(d) |-> IF d[i].name = k THEN [name |-> k, value |-> v] ELSE d[i]]
    ELSE Append(d, [name |-> k, value |-> v])

\* d.get(k): None when the key is absent
DictGet(d, k) ==
    IF DictHas(d, k)
    THEN (d[CHOOSE i \in 1..Len(d) : d[i].name = k]).value
    ELSE PyNone

----------------------------------------------------------------------------
(* parse_xml_bell_times: the body of the loop over the lines *)

\* the number of members a struct needs to be kept
MinMembers == 6

\* line[line.find('<name>') + 6 : line.find('</name>')]
NameOf(line) ==
    PySlice(line, PyFind(line, "<name>") + 1, PyFind(line, "</name>"))

\* line[line.find('<value>') + 7 : line.find('</value>')]
InlineValuePart(line) ==
    PySlice(line, PyFind(line, "<value>") + 1, PyFind(line, "</value>"))

\* line[line.find('<value>') + 7 :]
ValueOpenPart(line) ==
    PySlice(line, PyFind(line, "<value>") + 1, Len(line))

\* line[: line.find('</value>')]
ValueClosePart(line) == PySlice(line, 0, PyFind(line, "</value>"))

\* '<i4>' in s and '</i4>' in s
HasI4(s) == Contains(s, "<i4>") /\ Contains(s, "</i4>")

\* s[s.find('<i4>') + 4 : s.find('</i4>')]
I4Inner(s) == PySlice(s, PyFind(s, "<i4>") + 1, PyFind(s, "</i4>"))

\* CoerceInline without the <i4> handling: every span is text
CoerceInline_TextOnly(value_part) == [ok |-> TRUE, value |-> PyStr(value_part)]

\* the value of a single-line span; ok = FALSE when int() raises
CoerceInline(value_part) ==
    IF HasI4(value_part)
    THEN LET r == PyIntParse(I4Inner(value_part))
         IN  [ok |-> r.ok, value |-> PyInt(r.n)]
    ELSE [ok |-> TRUE, value |-> PyStr(value_part)]

\* the value of an accumulated multi-line span; ok = FALSE when int() raises
CoerceMulti(content) ==
    IF HasI4(content)
    THEN LET r == PyIntParse(I4Inner(content))
         IN  [ok |-> r.ok, value |-> PyInt(r.n)]
    ELSE [ok |-> TRUE, value |-> PyStr(Strip(content))]

\* CloseStruct with the threshold off by one
CloseStruct_OffByOne(out, cs) ==
    IF cs # <<>> /\ Len(cs) >= MinMembers - 1 THEN Append(out, cs) ELSE out

\* the struct-close branch keeps the record or drops it
CloseStruct(out, cs) ==
    IF cs # <<>> /\ Len(cs) >= MinMembers THEN Append(out, cs) ELSE out

\* The locals of the loop, as a record
Locals ==
    [in_bell_times_array |-> in_bell_times_array, in_struct |-> in_struct,
     current_struct |-> current_struct, current_member |-> current_member,
     in_value |-> in_value, value_content |-> value_content,
     structs |-> structs]

\* lines 36-41: the array markers are looked for first, on every line
ArrayBranch(st, line) ==
    IF Contains(line, "<array>")
    THEN [st |-> [st EXCEPT !.in_bell_times_array = TRUE], br |-> "array_open"]
    ELSE [st |-> [st EXCEPT !.in_bell_times_array = FALSE], br |-> "array_close"]

\* InValue taking every line for a piece of a value
InValue_Always(st) == TRUE

\* line 83: elif in_value
InValue(st) == st.in_value

\* OpenStruct keeping the members read so far
OpenStruct_KeepMembers(st) == [st EXCEPT !.in_struct = TRUE]

\* lines 46-48: the struct-open branch starts an empty struct
OpenStruct(st) == [st EXCEPT !.in_struct = TRUE, !.current_struct = <<>>]

\* lines 56-103: a line inside a struct
MemberBranch(st, line) ==
    IF Contains(line, "<name>") /\ Contains(line, "</name>")
    THEN [st |-> [st EXCEPT !.current_member = PyStr(NameOf(line))], br |-> "name"]
    ELSE IF Contains(line, "<value>") /\ Truthy(st.current_member)
    THEN IF Contains(line, "</value>")
         THEN LET c == CoerceInline(InlineValuePart(line))
              IN  IF c.ok
                  THEN [st |-> [st EXCEPT
                                  !.current_struct = DictSet(st.current_struct,
                                                             st.current_member, c.value),
                                  !.current_member = PyNone],
                        br |-> "inline"]
                  ELSE [st |-> st, br |-> "raise"]
         ELSE [st |-> [st EXCEPT !.in_value = TRUE,
                                 !.value_content = ValueOpenPart(line)],
               br |-> "value_open"]
    ELSE IF InValue(st)
    THEN IF Contains(line, "</value>")
         THEN LET content == st.value_content \o ValueClosePart(line)
                  c == CoerceMulti(content)
              IN  IF c.ok
                  THEN [st |-> [st EXCEPT
                                  !.current_struct = DictSet(st.current_struct,
                                                             st.current_member, c.value),
                                  !.current_member = PyNone,
                                  !.in_value = FALSE,
                                  !.value_content = <<>>],
                        br |-> "value_close"]
                  ELSE [st |-> [st EXCEPT !.value_content = content], br |-> "raise"]
         ELSE [st |-> [st EXCEPT !.value_content = st.value_content \o line],
               br |-> "value_more"]
    ELSE [st |-> st, br |-> "none"]

\* LoopBody without `if not in_bell_times_array: continue`
LoopBody_NoRegionTest(st, raw) ==
    LET line == Strip(raw)
    IN  IF Contains(line, "<array>") \/ Contains(line, "</array>")
        THEN ArrayBranch(st, line)
        ELSE IF Contains(line, "<struct>")
        THEN [st |-> OpenStruct(st), br |-> "struct_open"]
        ELSE IF Contains(line, "</struct>") /\ st.in_struct
        THEN [st |-> [st EXCEPT
                        !.structs = CloseStruct(st.structs, st.current_struct),
                        !.in_struct = FALSE,
                        !.current_struct = <<>>],
              br |-> "struct_close"]
        ELSE IF st.in_struct
        THEN MemberBranch(st, line)
        ELSE [st |-> st, br |-> "none"]

\* lines 33-103: one pass of the loop body on the raw line
LoopBody(st, raw) ==
    LET line == Strip(raw)
    IN  IF Contains(line, "<array>") \/ Contains(line, "</array>")
        THEN ArrayBranch(st, line)
        ELSE IF ~st.in_bell_times_array
        THEN [st |-> st, br |-> "skip"]
        ELSE IF Contains(line, "<struct>")
        THEN [st |-> OpenStruct(st), br |-> "struct_open"]
        ELSE IF Contains(line, "</struct>") /\ st.in_struct
        THEN [st |-> [st EXCEPT
                        !.structs = CloseStruct(st.structs, st.current_struct),
                        !.in_struct = FALSE,
                        !.current_struct = <<>>],
              br |-> "struct_close"]
        ELSE IF st.in_struct
        THEN MemberBranch(st, line)
        ELSE [st |-> st, br |-> "none"]

----------------------------------------------------------------------------
(* The input text: bell_times.xml, produced block by block *)

\* blocks in one text
MaxBlocks == 6

Member(n, v) == [name |-> PyStr(n), value |-> v]

\* the record of Scenario A
RecA ==
    <<Member(<<"DayNumber">>, PyInt(2)), Member(<<"DayName">>, PyStr(<<"TueA">>)),
      Member(<<"Period">>, PyStr(<<"P6">>)), Member(<<"StartTime">>, PyStr(<<"12:10">>)),
      Member(<<"EndTime">>, PyStr(<<"13:00">>)), Member(<<"Type">>, PyStr(<<"O">>))>>

\* Scenario A with a member the reconciliation does not know
RecRoom == Append(RecA, Member(<<"Room">>, PyStr(<<"B", " ", "2">>)))

\* another record, its members in another order
RecB ==
    <<Member(<<"Type">>, PyStr(<<"T">>)), Member(<<"EndTime">>, PyStr(<<"09:50">>)),
      Member(<<"StartTime">>, PyStr(<<"09:00">>)), Member(<<"Period">>, PyStr(<<"P1">>)),
      Member(<<"DayName">>, PyStr(<<"MonA">>)), Member(<<"DayNumber">>, PyInt(10))>>

\* five members only
RecShort == SubSeq(RecA, 1, 5)

StructChoices == {RecA, RecRoom, RecB, RecShort}

\* the text of a value between its value markers
Span(v) ==
    IF v.t = "int" THEN <<"<i4>">> \o IntText(v.v) \o <<"</i4>">> ELSE v.v

NameLine(n) == <<" ", "<name>">> \o n \o <<"</name>">>

InlineLine(span) == <<" ", "<value>">> \o span \o <<"</value>", " ">>

RECURSIVE MemberLines(_)
MemberLines(rec) ==
    IF rec = <<>> THEN <<>>
    ELSE <<NameLine(rec[1].name.v), InlineLine(Span(rec[1].value))>>
         \o MemberLines(Tail(rec))

StructLines(rec) == <<<<"<struct>">>>> \o MemberLines(rec) \o <<<<" ", "</struct>">>>>

MarkerLines == {<<"<array>">>, <<"</array>">>, <<"<struct>">>, <<"</struct>">>}

NameChoices == {<<"Type">>, <<"Room">>, <<"DayNumber">>, <<>>}

\* the values a single member block carries
SentValues ==
    {PyInt(7), PyInt(-3), PyStr(<<"O">>), PyStr(<<"a", " ", "b">>), PyStr(<<" ", "a">>)}

\* integer-tagged spans int() refuses
BadSpans == {<<"<i4>", "x", "</i4>">>, <<"<i4>", "</i4>">>}

\* a span cut into two lines after i tokens, or three after i and j tokens
SplitLines(span, i, j) ==
    IF i = j
    THEN <<<<"<value>">> \o SubSeq(span, 1, i),
           SubSeq(span, i + 1, Len(span)) \o <<"</value>">>>>
    ELSE <<<<"<value>">> \o SubSeq(span, 1, i),
           SubSeq(span, i + 1, j),
           SubSeq(span, j + 1, Len(span)) \o <<"</value>">>>>

\* lines of any shape: pieces of values, with and without markers in them
LooseLines ==
    {<<"<value>">>, <<"<value>", "a">>, <<"</value>">>, <<"b", "</value>">>,
     <<"c">>, <<"c", "<struct>">>, <<"</struct>", "c">>, <<"c", "</array>">>,
     <<"<array>", "c">>}

----------------------------------------------------------------------------
(* State *)

NoSent == [kind |-> "none", value |-> PyNone, span |-> <<>>, name |-> PyNone, ready |-> FALSE]

Init ==
    /\ in_bell_times_array = FALSE
    /\ in_struct = FALSE
    /\ current_struct = <<>>
    /\ current_member = PyNone
    /\ in_value = FALSE
    /\ value_content = <<>>
    /\ structs = <<>>
    /\ dpc = "scan"
    /\ returned = <<>>
    /\ raised = FALSE
    /\ pending = <<>>
    /\ nblocks = 0
    /\ branch = "start"
    /\ seenArrayClose = FALSE
    /\ skippedAfterClose = FALSE
    /\ closed = -1
    /\ expected = <<>>
    /\ sent = NoSent
    /\ xml_data = <<>>
    /\ json_data = <<>>
    /\ xml_lookup = <<>>
    /\ json_lookup = <<>>
    /\ xml_keys = {}
    /\ json_keys = {}
    /\ common_keys = {}
    /\ xml_only = {}
    /\ json_only = {}
    /\ matches = 0
    /\ mismatches = 0
    /\ sample_mismatches = <<>>
    /\ field_details = <<>>
    /\ todo = <<>>
    /\ cpc = "idle"
    /\ result = "none"
    /\ match_rate = <<>>
    /\ validator = "none"
    /\ vdata = <<>>
    /\ validation_issues = <<>>
    /\ vsteps = <<>>
    /\ vchecked = <<>>
    /\ vpc = "idle"
    /\ v_return = <<>>
    /\ validation_result = <<>>
    /\ retries = 0
    /\ attempt = 0
    /\ last_exception = <<"None">>
    /\ response = [kind |-> "none"]
    /\ rlog = <<>>
    /\ rpc = "idle"
    /\ req_return = "pending"
    /\ configured = FALSE
    /\ held = [e \in {"days", "periods", "period_in_days"} |-> 0]
    /\ items = [e \in {"days", "periods", "period_in_days"} |-> <<>>]
    /\ offset = 0
    /\ requested = [e \in {"days", "periods", "period_in_days"} |-> <<>>]
    /\ stopped = [e \in {"days", "periods", "period_in_days"} |-> "none"]
    /\ written = <<>>
    /\ gpc = "idle"
    /\ gen_exception = "None"
    /\ gen_return = [success |-> "pending", code |-> 0, range |-> "N/A"]
    /\ name_own = FALSE
    /\ acc_own = FALSE
    /\ foreign = {}

CanFeed == dpc = "scan" /\ pending = <<>> /\ nblocks < MaxBlocks

Feed(lines) ==
    /\ pending' = lines
    /\ nblocks' = nblocks + 1
    /\ UNCHANGED <<in_bell_times_array, in_struct, current_struct, current_member,
                   in_value, value_content, structs, dpc, returned, raised,
                   branch, seenArrayClose, skippedAfterClose, closed>>
    /\ UNCHANGED <<cvars, vvars, rvars, gvars, tvars>>

\* the decoder is inside a struct of a region, a member name pending
Ready == in_bell_times_array /\ in_struct /\ Truthy(current_member)

FeedMarker ==
    /\ CanFeed
    /\ \E m \in MarkerLines : Feed(<<m>>)
    /\ sent' = NoSent
    /\ UNCHANGED expected

FeedStruct ==
    /\ CanFeed
    /\ \E rec \in StructChoices :
          /\ Feed(StructLines(rec))
          /\ expected' = IF in_bell_times_array /\ Len(rec) >= 6
                         THEN Append(expected, rec) ELSE expected
    /\ sent' = NoSent

FeedMembers ==
    /\ CanFeed
    /\ Feed(MemberLines(RecShort))
    /\ sent' = NoSent
    /\ UNCHANGED expected

FeedName ==
    /\ CanFeed
    /\ \E n \in NameChoices : Feed(<<NameLine(n)>>)
    /\ sent' = NoSent
    /\ UNCHANGED expected

FeedInline ==
    /\ CanFeed
    /\ \E v \in SentValues :
          /\ Feed(<<InlineLine(Span(v))>>)
          /\ sent' = [kind |-> "inline", value |-> v, span |-> Span(v),
                      name |-> current_member, ready |-> Ready]
    /\ UNCHANGED expected

FeedSplit ==
    /\ CanFeed
    /\ \E v \in SentValues : \E i \in 0..Len(Span(v)) : \E j \in i..Len(Span(v)) :
          /\ Feed(SplitLines(Span(v), i, j))
          /\ sent' = [kind |-> "split", value |-> v, span |-> Span(v),
                      name |-> current_member, ready |-> Ready]
    /\ UNCHANGED expected

FeedBad ==
    /\ CanFeed
    /\ \E b \in BadSpans : Feed(<<InlineLine(b)>>)
    /\ sent' = NoSent
    /\ UNCHANGED expected

FeedLoose ==
    /\ CanFeed
    /\ \E l \in LooseLines : Feed(<<l>>)
    /\ sent' = NoSent
    /\ UNCHANGED expected

\* the markers in a line
Markers(line) ==
    {m \in {"<array>", "</array>", "<struct>", "</struct>", "<name>", "</name>",
            "<value>", "</value>"} : Contains(line, m)}

\* the next line has a close marker and nothing it could close is open: an
\* array-close outside a region, a struct-close with no struct open, a
\* value-close with no value being accumulated
StrayClose ==
    /\ dpc = "scan"
    /\ pending # <<>>
    /\ \/ Markers(Head(pending)) = {"</array>"} /\ ~in_bell_times_array
       \/ Markers(Head(pending)) = {"</struct>"} /\ ~in_struct
       \/ Markers(Head(pending)) = {"</value>"} /\ ~in_value

\* one iteration of `for line in lines`; a ValueError goes to the except
\* clause, which returns []
ScanLine ==
    /\ dpc = "scan"
    /\ pending # <<>>
    /\ LET r == LoopBody(Locals, Head(pending))
       IN  /\ in_bell_times_array' = r.st.in_bell_times_array
           /\ in_struct' = r.st.in_struct
           /\ current_struct' = r.st.current_struct
           /\ current_member' = r.st.current_member
           /\ in_value' = r.st.in_value
           /\ value_content' = r.st.value_content
           /\ structs' = r.st.structs
           /\ branch' = IF StrayClose THEN "stray_close" ELSE r.br
           /\ seenArrayClose' = (seenArrayClose
                                   \/ (r.br = "array_close" /\ in_bell_times_array))
           /\ skippedAfterClose' = (skippedAfterClose
                                      \/ (r.br = "skip" /\ seenArrayClose))
           /\ closed' = IF r.br = "struct_close" THEN Len(current_struct) ELSE closed
           /\ IF r.br = "raise"
              THEN dpc' = "done" /\ returned' = <<>> /\ raised' = TRUE
              ELSE UNCHANGED <<dpc, returned, raised>>
    /\ pending' = Tail(pending)
    /\ UNCHANGED <<nblocks, expected, sent>>
    /\ UNCHANGED <<cvars, vvars, rvars, gvars>>

\* the loop body, for the next line
Scan == ScanLine /\ UNCHANGED tvars

\* the loop body for the next line, with where its names and values come
\* from: a struct-open or struct-close line makes what is pending foreign
\* to the struct that follows
ScanTraced ==
    /\ ScanLine
    /\ LET br == LoopBody(Locals, Head(pending)).br
           own == IF br = "inline" THEN name_own ELSE name_own /\ acc_own
       IN  /\ name_own' = IF br = "name" THEN TRUE
                          ELSE IF br \in {"struct_open", "struct_close", "inline",
                                          "value_close", "raise"}
                          THEN FALSE ELSE name_own
           /\ acc_own' = IF br = "value_open" THEN name_own
                         ELSE IF br \in {"struct_open", "struct_close", "value_close"}
                         THEN FALSE ELSE acc_own
           /\ foreign' = IF br \in {"struct_open", "struct_close"} THEN {}
                         ELSE IF br \in {"inline", "value_close"}
                         THEN IF own THEN foreign \ {current_member}
                              ELSE foreign \cup {current_member}
                         ELSE foreign

\* the loop is over: return structs
Return ==
    /\ dpc = "scan"
    /\ pending = <<>>
    /\ dpc' = "done"
    /\ returned' = structs
    /\ branch' = "return"
    /\ UNCHANGED <<in_bell_times_array, in_struct, current_struct, current_member,
                   in_value, value_content, structs, raised, pending, nblocks,
                   seenArrayClose, skippedAfterClose, closed, expected, sent>>
    /\ UNCHANGED <<cvars, vvars, rvars, gvars, tvars>>

NextDecoder ==
    \/ FeedMarker
    \/ FeedStruct
    \/ FeedMembers
    \/ FeedName
    \/ FeedInline
    \/ FeedSplit
    \/ FeedBad
    \/ FeedLoose
    \/ Scan
    \/ Return

SpecDecoder == Init /\ [][NextDecoder]_vars

\* structs whose text breaks off: after a member name, and inside a
\* multi-line value
UnfinishedStructs ==
    {<<<<"<struct>">>, NameLine(<<"Type">>)>>,
     <<<<"<struct>">>, NameLine(<<"Type">>), <<"<value>", "a">>>>}

FeedUnfinished ==
    /\ CanFeed
    /\ \E u \in UnfinishedStructs : Feed(u)
    /\ sent' = NoSent
    /\ UNCHANGED expected

\* the decoder on texts with unfinished structs in them
NextCarry ==
    \/ FeedMarker
    \/ FeedUnfinished
    \/ FeedMembers
    \/ FeedInline
    \/ FeedLoose
    \/ ScanTraced
    \/ Return

SpecCarry == Init /\ [][NextCarry]_vars

----------------------------------------------------------------------------
(* Properties of the decoder *)

\* a is b with some entries left out, the order kept
RECURSIVE IsSubSeq(_, _)
IsSubSeq(a, b) ==
    IF a = <<>> THEN TRUE
    ELSE IF b = <<>> THEN FALSE
    ELSE IF a[1] = b[1] THEN IsSubSeq(Tail(a), Tail(b))
    ELSE IsSubSeq(a, Tail(b))

\* s without its whitespace tokens
RECURSIVE Squeeze(_)
Squeeze(s) ==
    IF s = <<>> THEN <<>>
    ELSE IF s[1] = " " THEN Squeeze(Tail(s))
    ELSE <<s[1]>> \o Squeeze(Tail(s))

\* the next line the loop reads is outside every array region and is no
\* array marker
OutsideLine ==
    /\ dpc = "scan"
    /\ pending # <<>>
    /\ ~in_bell_times_array
    /\ ~Contains(Head(pending), "<array>")

\* C1 as stated: once an array region has closed, no later line changes the
\* records decoded (only the first region is decoded).
C1_OnlyFirstRegion == [][seenArrayClose => structs' = structs]_vars

\* C1 amended: a line read while no array region is open changes nothing of
\* the decoder but, for an array-close line, nothing at all; a struct-close
\* line read inside any region, the first or a later one, emits the struct
\* when it has 6 members or more.
C1_OutsideRegionIgnored ==
    [][/\ OutsideLine =>
            /\ structs' = structs
            /\ in_struct' = in_struct
            /\ current_struct' = current_struct
            /\ current_member' = current_member
            /\ in_value' = in_value
            /\ value_content' = value_content
            /\ in_bell_times_array' = FALSE
       /\ (/\ dpc = "scan" /\ pending # <<>>
           /\ in_bell_times_array /\ in_struct
           /\ Strip(Head(pending)) = <<"</struct>">>
           /\ Len(current_struct) >= 6)
           => structs' = Append(structs, current_struct)]_vars

\* C1 witness: lines were skipped after a region had closed, and a record of
\* a second region has been emitted after the first region's.
C1_Witness ==
    /\ skippedAfterClose
    /\ in_bell_times_array
    /\ branch = "struct_close"
    /\ Len(structs) = 2

\* C2 as stated: every well-formed struct of 6 members or more inside a
\* region gives exactly its record, the records in text order: the records
\* returned contain the expected ones in order.
C2_WellFormedStructsEmitted == dpc = "done" => IsSubSeq(expected, returned)

\* C3: every record emitted, and every record returned, has at least 6
\* members; a struct-close that saw fewer emitted nothing and raised nothing.
C3_RecordsHaveSixMembers ==
    /\ \A i \in 1..Len(structs) : Len(structs[i]) >= 6
    /\ \A i \in 1..Len(returned) : Len(returned[i]) >= 6
    /\ (branch = "struct_close" /\ closed < 6) => (dpc = "scan" /\ ~raised)

\* C3 witness: a struct of 5 members was closed inside a region and left no
\* record.
C3_Witness ==
    /\ branch = "struct_close"
    /\ closed = 5
    /\ structs = <<>>
    /\ dpc = "scan"

\* C4 as stated: when a malformed integer was met, the records of the
\* well-formed structs of the text are still returned.
C4_MalformedCostsOnlyItself ==
    (dpc = "done" /\ raised) => IsSubSeq(expected, returned)

\* the last block was a value, read to its end from a state where a member
\* name was pending inside a struct of a region
ValueRead ==
    /\ sent.kind # "none"
    /\ sent.ready
    /\ pending = <<>>
    /\ dpc = "scan"
    /\ branch \in {"inline", "value_close"}

\* what the one-line presentation of a span decodes to
InlineResult(span) == CoerceInline(InlineValuePart(Strip(InlineLine(span)))).value

\* C5 as stated: a value split across lines decodes to what the same text
\* decodes to on one line.
C5_SplitSameAsInline ==
    (ValueRead /\ sent.kind = "split")
        => DictGet(current_struct, sent.name) = InlineResult(sent.span)

\* the decoder is accumulating a value, and the next line has no value-close
Accumulating ==
    /\ dpc = "scan"
    /\ pending # <<>>
    /\ in_bell_times_array /\ in_struct /\ in_value
    /\ ~Contains(Head(pending), "</value>")

\* C6 as stated: while a multi-line value is accumulated, a line without
\* value-close is appended to the text and changes nothing else.
C6_AccumulationOnlyAppends ==
    [][Accumulating =>
          /\ value_content' = value_content \o Strip(Head(pending))
          /\ in_value'
          /\ current_struct' = current_struct
          /\ current_member' = current_member
          /\ in_struct' = in_struct
          /\ in_bell_times_array' = in_bell_times_array
          /\ structs' = structs]_vars

----------------------------------------------------------------------------
(* compare_bell_times *)

\* records in one collection
MaxRecs == 2

\* the mismatches shown
MaxSamples == 10

\* str(x), as an f-string formats a value
PyFormat(x) ==
    IF x.t = "int" THEN IntText(x.v)
    ELSE IF x.t = "none" THEN <<"None">>
    ELSE x.v

\* d.get(k, default)
DictGetOr(d, k, default) == IF DictHas(d, k) THEN DictGet(d, k) ELSE default

\* f"{entry.get('DayName', '')}-{entry.get('Period', '')}"
KeyOf(entry) ==
    PyFormat(DictGetOr(entry, PyStr(<<"DayName">>), PyStr(<<>>)))
        \o <<"-">>
        \o PyFormat(DictGetOr(entry, PyStr(<<"Period">>), PyStr(<<>>)))

\* BuildLookup keeping the first entry of a key
RECURSIVE BuildLookup_FirstWins(_, _)
BuildLookup_FirstWins(lookup, data) ==
    IF data = <<>> THEN lookup
    ELSE IF DictHas(lookup, KeyOf(data[1]))
         THEN BuildLookup_FirstWins(lookup, Tail(data))
         ELSE BuildLookup_FirstWins(DictSet(lookup, KeyOf(data[1]), data[1]),
                                    Tail(data))

\* the loop that fills a lookup: lookup[key] = entry, for each entry in turn
RECURSIVE BuildLookup(_, _)
BuildLookup(lookup, data) ==
    IF data = <<>> THEN lookup
    ELSE BuildLookup(DictSet(lookup, KeyOf(data[1]), data[1]), Tail(data))

\* set(lookup.keys())
KeysOf(lookup) == {lookup[i].name : i \in 1..Len(lookup)}

CommonKeys(xk, jk) == xk \cap jk

\* XmlOnly without the difference
XmlOnly_All(xk, jk) == xk

XmlOnly(xk, jk) == xk \ jk

JsonOnly(xk, jk) == jk \ xk

\* the tokens of the keys, in the order of their text
KeyTokens ==
    <<"-", "0", "1", "2", "3", "4", "5", "6", "7", "8", "9",
      "MonA", "P1", "P6", "P7", "TueA">>

Rank(tok) == CHOOSE i \in 1..Len(KeyTokens) : KeyTokens[i] = tok

\* a < b for two strings
RECURSIVE StrLess(_, _)
StrLess(a, b) ==
    IF b = <<>> THEN FALSE
    ELSE IF a = <<>> THEN TRUE
    ELSE IF a[1] = b[1] THEN StrLess(Tail(a), Tail(b))
    ELSE Rank(a[1]) < Rank(b[1])

\* Sorted giving the least key only
Sorted_LeastOnly(keys) ==
    IF keys = {} THEN <<>>
    ELSE <<CHOOSE k \in keys : \A o \in keys \ {k} : StrLess(k, o)>>

\* sorted(list(keys))
RECURSIVE Sorted(_)
Sorted(keys) ==
    IF keys = {} THEN <<>>
    ELSE LET least == CHOOSE k \in keys : \A o \in keys \ {k} : StrLess(k, o)
         IN  <<least>> \o Sorted(keys \ {least})

\* the fields compared
Fields == <<"DayNumber", "DayName", "Period", "StartTime", "EndTime", "Type">>

\* PyNotEqual on the printed text of the values
PyNotEqual_Text(a, b) == PyFormat(a) # PyFormat(b)

\* a != b
PyNotEqual(a, b) == a # b

\* f"{field}: XML='{xml_val}' vs JSON='{json_val}'"
Detail(field, xml_val, json_val) ==
    <<field, ": XML='">> \o PyFormat(xml_val) \o <<"' vs JSON='">>
        \o PyFormat(json_val) \o <<"'">>

\* CompareFields passing over a field that one of the records lacks
RECURSIVE CompareFields_PresentOnly(_, _, _, _)
CompareFields_PresentOnly(xml_entry, json_entry, i, acc) ==
    IF i > Len(Fields) THEN acc
    ELSE LET xml_val == DictGet(xml_entry, PyStr(<<Fields[i]>>))
             json_val == DictGet(json_entry, PyStr(<<Fields[i]>>))
         IN  IF /\ DictHas(xml_entry, PyStr(<<Fields[i]>>))
                /\ DictHas(json_entry, PyStr(<<Fields[i]>>))
                /\ PyNotEqual(xml_val, json_val)
             THEN CompareFields_PresentOnly(xml_entry, json_entry, i + 1,
                      [fields_match |-> FALSE,
                       field_details |-> Append(acc.field_details,
                                                Detail(Fields[i], xml_val, json_val))])
             ELSE CompareFields_PresentOnly(xml_entry, json_entry, i + 1, acc)

\* the loop over the fields, from field number i on: fields_match and
\* field_details
RECURSIVE CompareFields(_, _, _, _)
CompareFields(xml_entry, json_entry, i, acc) ==
    IF i > Len(Fields) THEN acc
    ELSE LET xml_val == DictGet(xml_entry, PyStr(<<Fields[i]>>))
             json_val == DictGet(json_entry, PyStr(<<Fields[i]>>))
         IN  IF PyNotEqual(xml_val, json_val)
             THEN CompareFields(xml_entry, json_entry, i + 1,
                      [fields_match |-> FALSE,
                       field_details |-> Append(acc.field_details,
                                                Detail(Fields[i], xml_val, json_val))])
             ELSE CompareFields(xml_entry, json_entry, i + 1, acc)

\* '; '.join(details)
RECURSIVE Join(_)
Join(details) ==
    IF details = <<>> THEN <<>>
    ELSE IF Len(details) = 1 THEN details[1]
    ELSE details[1] \o <<"; ">> \o Join(Tail(details))

\* f"   <cross mark> {key}: {'; '.join(field_details)}", the mark written X
Sample(k, details) == <<"   X ">> \o k \o <<": ">> \o Join(details)

\* KeepSample without the limit
KeepSample_Uncapped(samples, s) == Append(samples, s)

\* if len(sample_mismatches) < 10: sample_mismatches.append(...)
KeepSample(samples, s) ==
    IF Len(samples) < MaxSamples THEN Append(samples, s) ELSE samples

\* f"{x:.1f}" for x = 100 * m / t, as tenths of a percent: the nearest
\* tenth, and the even one when two are equally near (which takes t a
\* multiple of 16)
Tenths(m, t) ==
    LET q == (1000 * m) \div t
        r == (1000 * m) % t
    IN  IF 2 * r > t \/ (2 * r = t /\ q % 2 = 1) THEN q + 1 ELSE q

\* MatchRate asking for a match instead of a compared key
MatchRate_NoMatches(m, mm) ==
    IF m > 0
    THEN <<"   Match rate: ">> \o NatText(Tenths(m, m + mm) \div 10) \o <<".">>
             \o NatText(Tenths(m, m + mm) % 10) \o <<"%">>
    ELSE <<"N/A">>

\* f"   <chart mark> Match rate: {(matches/(matches+mismatches)*100):.1f}%"
\*     if (matches+mismatches) > 0 else "N/A", the mark left out
MatchRate(m, mm) ==
    IF (m + mm) > 0
    THEN <<"   Match rate: ">> \o NatText(Tenths(m, m + mm) \div 10) \o <<".">>
             \o NatText(Tenths(m, m + mm) % 10) \o <<"%">>
    ELSE <<"N/A">>

\* Success with a tie counted as success
Success_AtLeast(m, mm) == m >= mm

\* return matches > mismatches
Success(m, mm) == m > mm

\* EmptyInput looking at the first collection only
EmptyInput_XmlOnly(x, j) == Len(x) = 0

\* len(xml_data) == 0, or len(json_data) == 0
EmptyInput(x, j) == Len(x) = 0 \/ Len(j) = 0

\* records to compare
RecLate == DictSet(RecA, PyStr(<<"EndTime">>), PyStr(<<"13:05">>))

RecText == DictSet(RecA, PyStr(<<"DayNumber">>), PyStr(<<"2">>))

RecP7 == DictSet(RecA, PyStr(<<"Period">>), PyStr(<<"P7">>))

RecNoType == SubSeq(RecA, 1, 5)

RecBare == <<RecA[1], RecA[4], RecA[5], RecA[6]>>

CmpRecords == {RecA, RecLate, RecText, RecP7, RecNoType, RecBare}

Collections == UNION {[1..n -> CmpRecords] : n \in 0..MaxRecs}

\* records in one long collection
MaxBulk == 12

\* the record of period number i, ending late or on time
BulkRec(i, late) ==
    DictSet(DictSet(RecA, PyStr(<<"Period">>), PyStr(NatText(i))),
            PyStr(<<"EndTime">>), PyStr(<<IF late THEN "13:05" ELSE "13:00">>))

\* n records of n periods, the first k of them ending late
Bulk(n, k) == [i \in 1..n |-> BulkRec(i, i <= k)]

Call ==
    /\ cpc = "idle"
    /\ \/ \E x \in Collections : \E j \in Collections :
             /\ xml_data' = x
             /\ json_data' = j
       \/ \E n \in 1..MaxBulk : \E k \in 0..n :
             /\ xml_data' = Bulk(n, 0)
             /\ json_data' = Bulk(n, k)
    /\ cpc' = "called"
    /\ UNCHANGED <<xml_lookup, json_lookup, xml_keys, json_keys, common_keys,
                   xml_only, json_only, matches, mismatches, sample_mismatches,
                   field_details, todo, result, match_rate>>
    /\ UNCHANGED <<dvars, vvars, rvars, gvars, tvars>>

\* lines 134-140
CheckEmpty ==
    /\ cpc = "called"
    /\ IF EmptyInput(xml_data, json_data)
       THEN cpc' = "done" /\ result' = "False"
       ELSE cpc' = "lookup" /\ UNCHANGED result
    /\ UNCHANGED <<xml_data, json_data, xml_lookup, json_lookup, xml_keys,
                   json_keys, common_keys, xml_only, json_only, matches,
                   mismatches, sample_mismatches, field_details, todo,
                   match_rate>>
    /\ UNCHANGED <<dvars, vvars, rvars, gvars, tvars>>

\* lines 145-155
BuildLookups ==
    /\ cpc = "lookup"
    /\ xml_lookup' = BuildLookup(<<>>, xml_data)
    /\ json_lookup' = BuildLookup(<<>>, json_data)
    /\ cpc' = "keys"
    /\ UNCHANGED <<xml_data, json_data, xml_keys, json_keys, common_keys,
                   xml_only, json_only, matches, mismatches, sample_mismatches,
                   field_details, todo, result, match_rate>>
    /\ UNCHANGED <<dvars, vvars, rvars, gvars, tvars>>

\* lines 157-185
KeySets ==
    /\ cpc = "keys"
    /\ xml_keys' = KeysOf(xml_lookup)
    /\ json_keys' = KeysOf(json_lookup)
    /\ common_keys' = CommonKeys(KeysOf(xml_lookup), KeysOf(json_lookup))
    /\ xml_only' = XmlOnly(KeysOf(xml_lookup), KeysOf(json_lookup))
    /\ json_only' = JsonOnly(KeysOf(xml_lookup), KeysOf(json_lookup))
    /\ matches' = 0
    /\ mismatches' = 0
    /\ sample_mismatches' = <<>>
    /\ todo' = Sorted(CommonKeys(KeysOf(xml_lookup), KeysOf(json_lookup)))
    /\ cpc' = "compare"
    /\ UNCHANGED <<xml_data, json_data, xml_lookup, json_lookup, field_details,
                   result, match_rate>>
    /\ UNCHANGED <<dvars, vvars, rvars, gvars, tvars>>

\* lines 185-208: the loop body, for the next key
CompareKey ==
    /\ cpc = "compare"
    /\ todo # <<>>
    /\ LET key == Head(todo)
           c == CompareFields(DictGet(xml_lookup, key), DictGet(json_lookup, key), 1,
                              [fields_match |-> TRUE, field_details |-> <<>>])
       IN  /\ field_details' = c.field_details
           /\ IF c.fields_match
              THEN /\ matches' = matches + 1
                   /\ UNCHANGED <<mismatches, sample_mismatches>>
              ELSE /\ mismatches' = mismatches + 1
                   /\ sample_mismatches' =
                         KeepSample(sample_mismatches, Sample(key, c.field_details))
                   /\ UNCHANGED matches
    /\ todo' = Tail(todo)
    /\ UNCHANGED <<xml_data, json_data, xml_lookup, json_lookup, xml_keys,
                   json_keys, common_keys, xml_only, json_only, cpc, result,
                   match_rate>>
    /\ UNCHANGED <<dvars, vvars, rvars, gvars, tvars>>

\* lines 210-233: the results printed, and the value returned
Report ==
    /\ cpc = "compare"
    /\ todo = <<>>
    /\ match_rate' = MatchRate(matches, mismatches)
    /\ result' = IF Success(matches, mismatches) THEN "True" ELSE "False"
    /\ cpc' = "done"
    /\ UNCHANGED <<xml_data, json_data, xml_lookup, json_lookup, xml_keys,
                   json_keys, common_keys, xml_only, json_only, matches,
                   mismatches, sample_mismatches, field_details, todo>>
    /\ UNCHANGED <<dvars, vvars, rvars, gvars, tvars>>

NextCompare ==
    \/ Call
    \/ CheckEmpty
    \/ BuildLookups
    \/ KeySets
    \/ CompareKey
    \/ Report

SpecCompare == Init /\ [][NextCompare]_vars

----------------------------------------------------------------------------
(* Properties of compare_bell_times *)

\* the keys of a collection
DataKeys(data) == {KeyOf(data[i]) : i \in 1..Len(data)}

\* the key sets have been computed
KeysKnown == cpc \in {"compare", "done"} /\ xml_data # <<>> /\ json_data # <<>>

\* C8: for two non-empty collections the XML-only, JSON-only and common keys
\* are pairwise disjoint, and together they are the keys of both collections.
C8_KeysPartition ==
    KeysKnown =>
        /\ xml_only \cap json_only = {}
        /\ xml_only \cap common_keys = {}
        /\ json_only \cap common_keys = {}
        /\ xml_only \cup json_only \cup common_keys
              = DataKeys(xml_data) \cup DataKeys(json_data)

\* C8 witness: a finished comparison with a key in each of the three sets.
C8_Witness ==
    /\ cpc = "done"
    /\ xml_only # {}
    /\ json_only # {}
    /\ common_keys # {}

\* the fields in which two records differ, in value or in type
DiffFields(x, j) ==
    SelectSeq(Fields, LAMBDA f : DictGet(x, PyStr(<<f>>)) # DictGet(j, PyStr(<<f>>)))

\* C9: the loop body counts the next common key as a match exactly when its
\* two records agree, in value and type, on the six fields; otherwise as one
\* mismatch, with one diff entry per differing field, in field order, naming
\* the field and both values.
C9_MatchIffSixFieldsEqual ==
    [][(cpc = "compare" /\ todo # <<>>) =>
          LET x == DictGet(xml_lookup, Head(todo))
              j == DictGet(json_lookup, Head(todo))
              d == DiffFields(x, j)
          IN  /\ Len(field_details') = Len(d)
              /\ \A i \in 1..Len(d) :
                    /\ field_details'[i][1] = d[i]
                    /\ field_details'[i] =
                          <<d[i], ": XML='">> \o PyFormat(DictGet(x, PyStr(<<d[i]>>)))
                              \o <<"' vs JSON='">> \o PyFormat(DictGet(j, PyStr(<<d[i]>>)))
                              \o <<"'">>
              /\ IF d = <<>>
                 THEN matches' = matches + 1 /\ mismatches' = mismatches
                 ELSE matches' = matches /\ mismatches' = mismatches + 1]_vars

\* C9 witness: Scenario C: two records sharing the key TueA-P6 and differing
\* in EndTime only gave one mismatch with one diff entry, for EndTime.
C9_Witness ==
    /\ cpc = "done"
    /\ xml_data = <<RecA>>
    /\ json_data = <<RecLate>>
    /\ matches = 0
    /\ mismatches = 1
    /\ Len(field_details) = 1
    /\ field_details[1] = <<"EndTime", ": XML='", "13:00", "' vs JSON='", "13:05", "'">>

\* C10: when either collection is empty the function returns False at once:
\* no lookup is built, no key set computed, no key compared.
C10_EmptyShortCircuits ==
    ((cpc \notin {"idle", "called"}) /\ (xml_data = <<>> \/ json_data = <<>>)) =>
        /\ cpc = "done"
        /\ result = "False"
        /\ xml_lookup = <<>> /\ json_lookup = <<>>
        /\ xml_keys = {} /\ json_keys = {} /\ common_keys = {}
        /\ matches = 0 /\ mismatches = 0
        /\ field_details = <<>> /\ sample_mismatches = <<>>

\* C10 witness: the call returned False with the first collection holding a
\* record and the second empty.
C10_Witness ==
    /\ cpc = "done"
    /\ xml_data # <<>>
    /\ json_data = <<>>
    /\ result = "False"

\* the call has returned after comparing
Compared == cpc = "done" /\ xml_data # <<>> /\ json_data # <<>>

\* C11: the comparison returns True exactly when strictly more common keys
\* matched than mismatched; on a tie, and so with no common key at all, it
\* returns False.
C11_SuccessIffMajority ==
    Compared =>
        /\ (result = "True") <=> (matches > mismatches)
        /\ (result = "False") <=> (matches <= mismatches)
        /\ (matches = mismatches) => result = "False"
        /\ (common_keys = {}) => (matches = 0 /\ mismatches = 0 /\ result = "False")

\* C11 witness: one key matched and one mismatched, and the call returned
\* False.
C11_Witness ==
    /\ Compared
    /\ matches = 1
    /\ mismatches = 1
    /\ result = "False"

\* a match rate line showing p tenths of a percent
RateLine(p) ==
    <<"   Match rate: ">> \o NatText(p \div 10) \o <<".">> \o NatText(p % 10)
        \o <<"%">>

\* C12: the match rate printed is N/A exactly when no key was compared;
\* otherwise it is matches / (matches + mismatches) as a percentage between
\* 0.0 and 100.0, to the nearest tenth.
C12_MatchRate ==
    Compared =>
        LET t == matches + mismatches
        IN  /\ (match_rate = <<"N/A">>) <=> (t = 0)
            /\ t > 0 =>
                  \E p \in 0..1000 :
                     /\ match_rate = RateLine(p)
                     /\ 2 * (p * t - 1000 * matches) <= t
                     /\ 2 * (1000 * matches - p * t) <= t

\* C12 witness: Scenario B: the collections share no key, nothing was
\* compared and the rate printed is N/A.
C12_Witness ==
    /\ Compared
    /\ xml_data = <<RecA>>
    /\ json_data = <<RecP7>>
    /\ common_keys = {}
    /\ matches = 0 /\ mismatches = 0
    /\ match_rate = <<"N/A">>

\* the text of a field holding a string, and the empty text for a field
\* that is missing
TextOr(entry, f) ==
    IF DictHas(entry, PyStr(<<f>>)) THEN (DictGet(entry, PyStr(<<f>>))).v ELSE <<>>

\* the last record of a collection that has the key k
LastWith(data, k) ==
    data[CHOOSE i \in 1..Len(data) :
            /\ KeyOf(data[i]) = k
            /\ \A o \in (i + 1)..Len(data) : KeyOf(data[o]) # k]

\* the lookups have been built
LookupsBuilt == cpc \in {"keys", "compare", "done"} /\ xml_data # <<>> /\ json_data # <<>>

\* C13: the key of a record is its DayName, a dash and its Period, a missing
\* field giving the empty text; under each key a lookup holds the last record
\* of its collection with that key; each common key is counted once.
C13_LastRecordWins ==
    LookupsBuilt =>
        /\ \A data \in {xml_data, json_data} : \A i \in 1..Len(data) :
               KeyOf(data[i]) = TextOr(data[i], "DayName") \o <<"-">>
                                    \o TextOr(data[i], "Period")
        /\ KeysOf(xml_lookup) = DataKeys(xml_data)
        /\ KeysOf(json_lookup) = DataKeys(json_data)
        /\ \A k \in DataKeys(xml_data) : DictGet(xml_lookup, k) = LastWith(xml_data, k)
        /\ \A k \in DataKeys(json_data) : DictGet(json_lookup, k) = LastWith(json_data, k)
        /\ cpc = "done" =>
              /\ matches + mismatches = Cardinality(common_keys)
              /\ matches = Cardinality({k \in common_keys :
                      DiffFields(LastWith(xml_data, k), LastWith(json_data, k)) = <<>>})

\* C13 witness: the first collection has two records with the key TueA-P6;
\* the later one equals the record of the second collection and the earlier
\* one does not, and the key was counted as a match.
C13_Witness ==
    /\ Compared
    /\ xml_data = <<RecA, RecLate>>
    /\ json_data = <<RecLate>>
    /\ matches = 1
    /\ mismatches = 0

\* the smaller of two numbers
Min(a, b) == IF a < b THEN a ELSE b

\* the common keys whose two records differ
Differing ==
    {k \in common_keys : DiffFields(DictGet(xml_lookup, k), DictGet(json_lookup, k)) # <<>>}

\* C14: the samples kept are never more than 10: their number is the smaller
\* of 10 and the mismatches counted so far, and when the call returns the
\* mismatch counter is the number of mismatching keys.
C14_SamplesCapped ==
    (cpc \in {"compare", "done"} /\ xml_data # <<>> /\ json_data # <<>>) =>
        /\ Len(sample_mismatches) <= 10
        /\ Len(sample_mismatches) = Min(mismatches, 10)
        /\ cpc = "done" => mismatches = Cardinality(Differing)

\* C14 witness: eleven keys mismatched: the counter is 11 and 10 samples are
\* kept.
C14_Witness ==
    /\ Compared
    /\ mismatches = 11
    /\ Len(sample_mismatches) = 10

----------------------------------------------------------------------------
(* Properties of the decoder: unterminated structs and stray close markers *)

\* the next line is read as a struct-open
StructOpenLine ==
    /\ dpc = "scan"
    /\ pending # <<>>
    /\ in_bell_times_array
    /\ Contains(Head(pending), "<struct>")
    /\ ~Contains(Head(pending), "<array>")
    /\ ~Contains(Head(pending), "</array>")

\* the input has ended and the function returns
EndOfInput == dpc = "scan" /\ pending = <<>> /\ dpc' = "done"

\* C19: a struct is emitted by its struct-close line only. A struct-open read
\* while a struct is open drops the members of that struct and emits nothing;
\* the end of the input emits nothing; and a record is added only by a
\* struct-close line, as the members of the struct open then.
C19_UnterminatedNeverEmitted ==
    [][/\ StructOpenLine =>
            /\ current_struct' = <<>>
            /\ in_struct'
            /\ structs' = structs
       /\ EndOfInput =>
            /\ structs' = structs
            /\ returned' = structs
       /\ structs' # structs =>
            /\ dpc = "scan" /\ pending # <<>>
            /\ in_struct
            /\ Contains(Head(pending), "</struct>")
            /\ structs' = Append(structs, current_struct)]_vars

\* C19 witness: the input ended inside a struct of a region that had read 6
\* members, and no record was returned.
C19_Witness ==
    /\ dpc = "done"
    /\ ~raised
    /\ in_bell_times_array
    /\ in_struct
    /\ Len(current_struct) >= 6
    /\ returned = <<>>

\* C20: a stray close marker changes nothing: an array-close line outside a
\* region, a struct-close line with no struct open and a value-close line
\* with no value being accumulated leave the locals of the decoder and the
\* records as they were, and the loop goes on.
C20_StrayCloseIgnored ==
    [][StrayClose =>
          /\ in_bell_times_array' = in_bell_times_array
          /\ in_struct' = in_struct
          /\ current_struct' = current_struct
          /\ current_member' = current_member
          /\ in_value' = in_value
          /\ value_content' = value_content
          /\ structs' = structs
          /\ dpc' = "scan"
          /\ ~raised']_vars

\* C20 witness: inside a struct of a region with a member read and a name
\* pending, the last line was a stray close marker.
C20_Witness ==
    /\ branch = "stray_close"
    /\ in_bell_times_array
    /\ in_struct
    /\ current_struct # <<>>
    /\ Truthy(current_member)
    /\ dpc = "scan"

----------------------------------------------------------------------------
(* Properties of the decoder: repeated member names *)

\* the names of a dict, and a dict holding each of its names once
NamesOf(d) == {d[i].name : i \in 1..Len(d)}

OnceEach(d) == Cardinality(NamesOf(d)) = Len(d)

\* the next line stores a value in the struct: a value on one line, or the
\* value-close line of a value accumulated over several
StoreLine ==
    /\ dpc = "scan"
    /\ pending # <<>>
    /\ in_bell_times_array /\ in_struct
    /\ Markers(Head(pending)) \in {{"<value>", "</value>"}, {"</value>"}}
    /\ IF Contains(Head(pending), "<value>") THEN Truthy(current_member) ELSE in_value
    /\ dpc' = "scan"

\* C21: a struct holds each member name once. A value stored under a name
\* the struct already has replaces the value of that name and adds no
\* member; every other member keeps its value; the name holds the value sent
\* last; and a record emitted has 6 names or more, all different.
C21_LastOccurrenceWins ==
    [][/\ current_struct' # current_struct => OnceEach(current_struct')
       /\ structs' # structs =>
            /\ structs' = Append(structs, structs'[Len(structs')])
            /\ OnceEach(structs'[Len(structs')])
            /\ Len(structs'[Len(structs')]) >= 6
       /\ StoreLine =>
            /\ NamesOf(current_struct') = NamesOf(current_struct) \cup {current_member}
            /\ Len(current_struct') =
                  IF current_member \in NamesOf(current_struct)
                  THEN Len(current_struct) ELSE Len(current_struct) + 1
            /\ \A n \in NamesOf(current_struct) \ {current_member} :
                  DictGet(current_struct', n) = DictGet(current_struct, n)
            /\ (sent.kind = "inline" /\ sent.ready /\ pending' = <<>>) =>
                  \A i \in 1..Len(current_struct') :
                     current_struct'[i].name = sent.name =>
                        current_struct'[i].value = sent.value]_vars

\* C21 witness: DayNumber, one of the five members of the struct, was sent
\* again with the value 7: the struct still has five members and DayNumber
\* is 7; closed then, it gave no record.
C21_Witness ==
    /\ ValueRead
    /\ sent.name = PyStr(<<"DayNumber">>)
    /\ sent.value = PyInt(7)
    /\ Len(current_struct) = 5
    /\ NamesOf(current_struct) = NamesOf(RecShort)
    /\ DictGet(current_struct, PyStr(<<"DayNumber">>)) = PyInt(7)

----------------------------------------------------------------------------
(* validate_bell_times_data, validate_liss_data, validate_calendar_data *)

\* records in one collection to validate
MaxVRecs == 6

\* the entries checked for their fields
FieldPrefix == 5

\* the entries checked for the format of a text
FormatPrefix == 3

\* the entries checked for their day number
DayPrefix == 5

\* the day numbers allowed
MinDay == 1

MaxDay == 10

\* the messages shown
ShownIssues == 3

\* the longest teacher code
MaxCode == 10

Validators == {"bell_times", "liss", "calendar"}

\* required_fields
RequiredFields(w) ==
    IF w = "bell_times"
    THEN <<"DayNumber", "DayName", "Period", "StartTime", "EndTime", "Type">>
    ELSE IF w = "liss"
    THEN <<"DayNumber", "Period", "ClassCode", "TeacherId", "TeacherCode">>
    ELSE <<"date", "day_name", "day_number", "day_type", "is_school_day">>

\* the checks of each function, in the order of its code
Steps(w) ==
    IF w = "bell_times" THEN <<"fields", "times", "days">>
    ELSE IF w = "liss" THEN <<"fields", "days", "codes">>
    ELSE <<"fields", "dates">>

\* NoData never seeing an empty collection
NoData_Never(d) == FALSE

\* not bell_times_data
NoData(d) == Len(d) = 0

\* the string returned for an empty collection
EmptyMessage(w) ==
    IF w = "bell_times" THEN <<"FAILED - No bell times data generated">>
    ELSE IF w = "liss" THEN <<"FAILED - No LISS timetable data generated">>
    ELSE <<"FAILED - No data generated">>

\* FirstEntries without the slice
FirstEntries_All(d, n) == d

\* bell_times_data[:n]
FirstEntries(d, n) == PySlice(d, 0, n)

\* f"Missing field '{field}' in entry {i+1}", i counted from 1 here
MsgMissing(field, i) == <<"Missing field '", field, "' in entry ">> \o NatText(i)

\* the loop over required_fields, for one entry
RECURSIVE MissingFields(_, _, _)
MissingFields(entry, i, fields) ==
    IF fields = <<>> THEN <<>>
    ELSE (IF ~DictHas(entry, PyStr(<<fields[1]>>))
          THEN <<MsgMissing(fields[1], i)>> ELSE <<>>)
         \o MissingFields(entry, i, Tail(fields))

\* the loop over the first entries, from entry i on
RECURSIVE CheckRequired(_, _, _)
CheckRequired(entries, i, fields) ==
    IF i > Len(entries) THEN <<>>
    ELSE MissingFields(entries[i], i, fields) \o CheckRequired(entries, i + 1, fields)

\* $ in a pattern: the end of the text, or the place before a last newline
AtEnd(s, n) == Len(s) = n \/ (Len(s) = n + 1 /\ s[n + 1] = "\n")

\* re.match(r'^\d{2}:\d{2}$', s) for a text s
MatchesTime(s) ==
    /\ Len(s) >= 5
    /\ IsDigit(s[1]) /\ IsDigit(s[2])
    /\ s[3] = ":"
    /\ IsDigit(s[4]) /\ IsDigit(s[5])
    /\ AtEnd(s, 5)

\* re.match(r'^\d{4}-\d{2}-\d{2}$', s) for a text s
MatchesDate(s) ==
    /\ Len(s) >= 10
    /\ \A i \in {1, 2, 3, 4, 6, 7, 9, 10} : IsDigit(s[i])
    /\ s[5] = "-" /\ s[8] = "-"
    /\ AtEnd(s, 10)

Upper ==
    {"A", "B", "C", "D", "E", "F", "G", "H", "I", "J", "K", "L", "M",
     "N", "O", "P", "Q", "R", "S", "T", "U", "V", "W", "X", "Y", "Z"}

\* re.match(r"^[A-Z][A-Z\-'\s]*$", s) for a text s
MatchesCode(s) ==
    /\ Len(s) >= 1
    /\ s[1] \in Upper
    /\ \A i \in 2..Len(s) : s[i] \in Upper \cup {"-", "'", " ", "\n"}

\* the outcome of a check: the issues found, or raised with nothing to show
Found(issues) == [raised |-> FALSE, issues |-> issues]

Raised == [raised |-> TRUE, issues |-> <<>>]

\* one issue when the test failed
IssueIf(failed, msg) == IF failed THEN <<msg>> ELSE <<>>

\* the issues of this entry, then the outcome of the entries after it
Then(issues, rest) == IF rest.raised THEN Raised ELSE Found(issues \o rest.issues)

\* the loop over the entries checked for their times, from entry i on;
\* re.match raises TypeError for a value that is no string
RECURSIVE CheckTimes(_, _)
CheckTimes(entries, i) ==
    IF i > Len(entries) THEN Found(<<>>)
    ELSE LET start_time == DictGetOr(entries[i], PyStr(<<"StartTime">>), PyStr(<<>>))
             end_time == DictGetOr(entries[i], PyStr(<<"EndTime">>), PyStr(<<>>))
         IN  IF start_time.t # "str" \/ end_time.t # "str" THEN Raised
             ELSE Then(IssueIf(~MatchesTime(start_time.v),
                               <<"Invalid start time format in entry ">> \o NatText(i)
                                   \o <<": ">> \o PyFormat(start_time))
                       \o IssueIf(~MatchesTime(end_time.v),
                                  <<"Invalid end time format in entry ">> \o NatText(i)
                                      \o <<": ">> \o PyFormat(end_time)),
                       CheckTimes(entries, i + 1))

\* the loop over the entries checked for their day number, from entry i on;
\* 1 <= day_num raises TypeError for a value that is no number
RECURSIVE CheckDays(_, _)
CheckDays(entries, i) ==
    IF i > Len(entries) THEN Found(<<>>)
    ELSE LET day_num == DictGetOr(entries[i], PyStr(<<"DayNumber">>), PyInt(0))
         IN  IF day_num.t # "int" THEN Raised
             ELSE Then(IssueIf(~(MinDay <= day_num.v /\ day_num.v <= MaxDay),
                               <<"Invalid day number in entry ">> \o NatText(i)
                                   \o <<": ">> \o PyFormat(day_num)),
                       CheckDays(entries, i + 1))

\* the loop over the entries checked for their teacher code, from entry i on
RECURSIVE CheckCodes(_, _)
CheckCodes(entries, i) ==
    IF i > Len(entries) THEN Found(<<>>)
    ELSE LET teacher_code == DictGetOr(entries[i], PyStr(<<"TeacherCode">>), PyStr(<<>>))
         IN  IF teacher_code.t # "str" THEN Raised
             ELSE Then(IssueIf(~MatchesCode(teacher_code.v)
                                   \/ Len(teacher_code.v) > MaxCode,
                               <<"Invalid teacher code format in entry ">> \o NatText(i)
                                   \o <<": ">> \o PyFormat(teacher_code)
                                   \o <<" (expected 1-10 chars: letters, hyphens, apostrophes, spaces)">>),
                       CheckCodes(entries, i + 1))

\* the loop over the entries checked for their date, from entry i on
RECURSIVE CheckDates(_, _)
CheckDates(entries, i) ==
    IF i > Len(entries) THEN Found(<<>>)
    ELSE LET date_str == DictGetOr(entries[i], PyStr(<<"date">>), PyStr(<<>>))
         IN  IF date_str.t # "str" THEN Raised
             ELSE Then(IssueIf(~MatchesDate(date_str.v),
                               <<"Invalid date format in entry ">> \o NatText(i)
                                   \o <<": ">> \o PyFormat(date_str)),
                       CheckDates(entries, i + 1))

\* one check of the function w on its argument d
Check(step, w, d) ==
    IF step = "fields"
    THEN Found(CheckRequired(FirstEntries(d, FieldPrefix), 1, RequiredFields(w)))
    ELSE IF step = "times" THEN CheckTimes(FirstEntries(d, FormatPrefix), 1)
    ELSE IF step = "days" THEN CheckDays(FirstEntries(d, DayPrefix), 1)
    ELSE IF step = "codes" THEN CheckCodes(FirstEntries(d, FormatPrefix), 1)
    ELSE CheckDates(FirstEntries(d, FormatPrefix), 1)

\* ', '.join(issues)
RECURSIVE JoinComma(_)
JoinComma(issues) ==
    IF issues = <<>> THEN <<>>
    ELSE IF Len(issues) = 1 THEN issues[1]
    ELSE issues[1] \o <<", ">> \o JoinComma(Tail(issues))

\* what each function calls its entries
EntriesName(w) ==
    IF w = "bell_times" THEN <<" bell time entries validated successfully">>
    ELSE IF w = "liss" THEN <<" LISS timetable entries validated successfully">>
    ELSE <<" entries validated successfully">>

\* the string returned after the checks
Verdict(w, issues, d) ==
    IF issues # <<>>
    THEN <<"FAILED - ">> \o NatText(Len(issues)) \o <<" issues: ">>
             \o JoinComma(PySlice(issues, 0, ShownIssues))
    ELSE <<"PASSED - ">> \o NatText(Len(d)) \o EntriesName(w)

\* bell times entries; the text of a time, a date or a teacher code has one
\* token for each character
VGood ==
    <<Member(<<"DayNumber">>, PyInt(2)), Member(<<"DayName">>, PyStr(<<"TueA">>)),
      Member(<<"Period">>, PyStr(<<"P6">>)),
      Member(<<"StartTime">>, PyStr(<<"1", "2", ":", "1", "0">>)),
      Member(<<"EndTime">>, PyStr(<<"1", "3", ":", "0", "0">>)),
      Member(<<"Type">>, PyStr(<<"O">>))>>

\* an entry without the member named f
Without(entry, f) == SelectSeq(entry, LAMBDA m : m.name # PyStr(<<f>>))

BellEntries ==
    {VGood,
     Without(VGood, "Type"),
     Without(VGood, "StartTime"),
     Without(VGood, "DayNumber"),
     <<>>,
     DictSet(VGood, PyStr(<<"StartTime">>), PyStr(<<"9", ":", "0", "0">>)),
     DictSet(VGood, PyStr(<<"EndTime">>), PyStr(<<"1", "3", ":", "0", "0", "\n">>)),
     DictSet(VGood, PyStr(<<"EndTime">>), PyInt(1300)),
     DictSet(VGood, PyStr(<<"DayNumber">>), PyInt(11)),
     DictSet(VGood, PyStr(<<"DayNumber">>), PyStr(<<"5">>))}

\* LISS timetable entries
LGood ==
    <<Member(<<"DayNumber">>, PyInt(2)), Member(<<"Period">>, PyStr(<<"P6">>)),
      Member(<<"ClassCode">>, PyStr(<<"7MAT1">>)), Member(<<"TeacherId">>, PyInt(41)),
      Member(<<"TeacherCode">>, PyStr(<<"O", "'", "N", "E", "I", "L">>))>>

LissEntries ==
    {LGood,
     Without(LGood, "TeacherCode"),
     DictSet(LGood, PyStr(<<"TeacherCode">>), PyStr(<<"n", "g">>)),
     DictSet(LGood, PyStr(<<"TeacherCode">>),
             PyStr(<<"F", "I", "T", "Z", "-", "W", "I", "L", "L", "I", "A", "M">>)),
     DictSet(LGood, PyStr(<<"TeacherCode">>), PyNone),
     DictSet(LGood, PyStr(<<"DayNumber">>), PyInt(0)),
     DictSet(LGood, PyStr(<<"DayNumber">>), PyStr(<<"2">>))}

\* calendar entries
CGood ==
    <<Member(<<"date">>, PyStr(<<"2", "0", "2", "5", "-", "0", "2", "-", "0", "3">>)),
      Member(<<"day_name">>, PyStr(<<"MonA">>)), Member(<<"day_number">>, PyInt(1)),
      Member(<<"day_type">>, PyStr(<<"A">>)), Member(<<"is_school_day">>, PyInt(1))>>

CalendarEntries ==
    {CGood,
     Without(CGood, "date"),
     Without(CGood, "day_type"),
     DictSet(CGood, PyStr(<<"date">>), PyStr(<<"3", "/", "2", "/", "2", "5">>)),
     DictSet(CGood, PyStr(<<"date">>), PyNone)}

EntriesOf(w) ==
    IF w = "bell_times" THEN BellEntries
    ELSE IF w = "liss" THEN LissEntries
    ELSE CalendarEntries

GoodOf(w) == IF w = "bell_times" THEN VGood ELSE IF w = "liss" THEN LGood ELSE CGood

\* the collections of up to MaxVRecs entries for the function w: good
\* entries, but for the entries at two places
VCollections(w) ==
    {<<>>} \cup
    UNION {{[[i \in 1..n |-> GoodOf(w)] EXCEPT ![p] = a, ![q] = b] :
               p \in 1..n, q \in 1..n, a \in EntriesOf(w), b \in EntriesOf(w)} :
           n \in 1..MaxVRecs}

\* main(): the call validate_...(data)
VCall ==
    /\ vpc = "idle"
    /\ \E w \in Validators : \E d \in VCollections(w) :
          /\ validator' = w
          /\ vdata' = d
    /\ vpc' = "called"
    /\ UNCHANGED <<validation_issues, vsteps, vchecked, v_return, validation_result>>
    /\ UNCHANGED <<dvars, cvars, rvars, gvars, tvars>>

\* if not data: return "FAILED - No ... data generated"
VCheckEmpty ==
    /\ vpc = "called"
    /\ IF NoData(vdata)
       THEN /\ v_return' = EmptyMessage(validator)
            /\ vpc' = "returned"
            /\ UNCHANGED <<validation_issues, vsteps>>
       ELSE /\ validation_issues' = <<>>
            /\ vsteps' = Steps(validator)
            /\ vpc' = "check"
            /\ UNCHANGED v_return
    /\ UNCHANGED <<validator, vdata, vchecked, validation_result>>
    /\ UNCHANGED <<dvars, cvars, rvars, gvars, tvars>>

\* the next check: its issues are appended, or its exception leaves the
\* function
VCheck(step) ==
    /\ vpc = "check"
    /\ vsteps # <<>>
    /\ Head(vsteps) = step
    /\ LET c == Check(step, validator, vdata)
       IN  IF c.raised
           THEN /\ vpc' = "raised"
                /\ UNCHANGED <<validation_issues, vsteps>>
           ELSE /\ validation_issues' = validation_issues \o c.issues
                /\ vsteps' = Tail(vsteps)
                /\ UNCHANGED vpc
    /\ vchecked' = Append(vchecked, step)
    /\ UNCHANGED <<validator, vdata, v_return, validation_result>>
    /\ UNCHANGED <<dvars, cvars, rvars, gvars, tvars>>

CheckFields == VCheck("fields")

CheckTimeFormat == VCheck("times")

CheckDayNumbers == VCheck("days")

CheckTeacherCodes == VCheck("codes")

CheckDateFormat == VCheck("dates")

\* if validation_issues: return FAILED ... else: return PASSED ...
VReturn ==
    /\ vpc = "check"
    /\ vsteps = <<>>
    /\ v_return' = Verdict(validator, validation_issues, vdata)
    /\ vpc' = "returned"
    /\ UNCHANGED <<validator, vdata, validation_issues, vsteps, vchecked,
                   validation_result>>
    /\ UNCHANGED <<dvars, cvars, rvars, gvars, tvars>>

\* main(): validation_result = validate_...(data)
Assign ==
    /\ vpc = "returned"
    /\ validation_result' = v_return
    /\ vpc' = "done"
    /\ UNCHANGED <<validator, vdata, validation_issues, vsteps, vchecked, v_return>>
    /\ UNCHANGED <<dvars, cvars, rvars, gvars, tvars>>

\* main() of generate_bell_times.py and of generate_liss_info.py:
\* except Exception as e: validation_result = f"FAILED - Could not validate: {e}"
Except ==
    /\ vpc = "raised"
    /\ validator \in {"bell_times", "liss"}
    /\ validation_result' = <<"FAILED - Could not validate: ", "str(e)">>
    /\ vpc' = "done"
    /\ UNCHANGED <<validator, vdata, validation_issues, vsteps, vchecked, v_return>>
    /\ UNCHANGED <<dvars, cvars, rvars, gvars, tvars>>

\* main() of generate_calendar.py calls the function outside any try
Uncaught ==
    /\ vpc = "raised"
    /\ validator = "calendar"
    /\ vpc' = "uncaught"
    /\ UNCHANGED <<validator, vdata, validation_issues, vsteps, vchecked, v_return,
                   validation_result>>
    /\ UNCHANGED <<dvars, cvars, rvars, gvars, tvars>>

NextValidator ==
    \/ VCall
    \/ VCheckEmpty
    \/ CheckFields
    \/ CheckTimeFormat
    \/ CheckDayNumbers
    \/ CheckTeacherCodes
    \/ CheckDateFormat
    \/ VReturn
    \/ Assign
    \/ Except
    \/ Uncaught

SpecValidator == Init /\ [][NextValidator]_vars

----------------------------------------------------------------------------
(* Properties of the validators *)

\* the call has ended, with a string or with an exception
VEnded == vpc \in {"returned", "raised"}

\* a string is a verdict
IsVerdict(str) == str # <<>> /\ str[1] \in {"PASSED - ", "FAILED - "}

\* C15 as stated: no call of a validator raises: whatever the types of the
\* values of the entries, the call returns a PASSED or a FAILED string.
C15_ValidatorNeverThrows ==
    VEnded => (vpc = "returned" /\ IsVerdict(v_return))

\* what a message is about, and the number of the entry it names
MsgKind(m) ==
    IF m[1] = "Missing field '" THEN "field"
    ELSE IF m[1] \in {"Invalid start time format in entry ",
                      "Invalid end time format in entry "} THEN "time"
    ELSE "day"

MsgEntry(m) == IF MsgKind(m) = "field" THEN m[4] ELSE m[2]

\* a value that is a text of two digits, a colon and two digits, a newline
\* allowed after it
WellTimed(v) ==
    /\ v.t = "str"
    /\ Len(v.v) \in {5, 6}
    /\ \A i \in {1, 2, 4, 5} : v.v[i] \in {"0", "1", "2", "3", "4", "5", "6", "7", "8", "9"}
    /\ v.v[3] = ":"
    /\ Len(v.v) = 6 => v.v[6] = "\n"

\* the value of a field, and what the validator reads for a missing one
TimeOf(e, f) == IF DictHas(e, PyStr(<<f>>)) THEN DictGet(e, PyStr(<<f>>)) ELSE PyStr(<<>>)

DayOf(e) ==
    IF DictHas(e, PyStr(<<"DayNumber">>)) THEN DictGet(e, PyStr(<<"DayNumber">>))
    ELSE PyInt(0)

GoodDay(v) == v.t = "int" /\ v.v \in 1..10

BellFields == {"DayNumber", "DayName", "Period", "StartTime", "EndTime", "Type"}

\* the string for n entries without an issue
Passed(n) == <<"PASSED - ">> \o NatText(n) \o <<" bell time entries validated successfully">>

\* the entries of the argument among the first n
Among(n) == {i \in 1..Len(vdata) : i <= n}

\* C16: validate_bell_times_data looks at the first 5 entries for fields and
\* day numbers and at the first 3 for times: if those are in order it returns
\* PASSED with the length of the collection, whatever the later entries hold;
\* no message names an entry after the fifth, and none about a time names an
\* entry after the third.
C16_BoundedPrefix ==
    (VEnded /\ validator = "bell_times" /\ vdata # <<>>) =>
        /\ ( /\ \A i \in Among(5) : \A f \in BellFields : DictHas(vdata[i], PyStr(<<f>>))
             /\ \A i \in Among(5) : GoodDay(DayOf(vdata[i]))
             /\ \A i \in Among(3) : WellTimed(TimeOf(vdata[i], "StartTime"))
                                      /\ WellTimed(TimeOf(vdata[i], "EndTime")) )
              => (vpc = "returned" /\ v_return = Passed(Len(vdata)))
        /\ \A n \in 1..Len(validation_issues) :
              LET m == validation_issues[n]
              IN  /\ MsgEntry(m) \in {"1", "2", "3", "4", "5"}
                  /\ MsgKind(m) = "time" => MsgEntry(m) \in {"1", "2", "3"}

\* C16 witness: six entries, the fourth with an ill-formed start time and the
\* sixth with a day number that is a string, and the call returned PASSED - 6.
C16_Witness ==
    /\ vpc = "returned"
    /\ validator = "bell_times"
    /\ Len(vdata) = 6
    /\ ~WellTimed(TimeOf(vdata[4], "StartTime"))
    /\ DayOf(vdata[6]).t = "str"
    /\ v_return = Passed(6)

\* the issues the claim counts in the inspected prefix
MissingCount ==
    Cardinality({p \in Among(5) \X BellFields : ~DictHas(vdata[p[1]], PyStr(<<p[2]>>))})

TimeCount ==
    Cardinality({p \in Among(3) \X {"StartTime", "EndTime"} :
                    ~WellTimed(TimeOf(vdata[p[1]], p[2]))})

DayCount == Cardinality({i \in Among(5) : ~GoodDay(DayOf(vdata[i]))})

\* field messages come first, then time messages, then day messages
KindRank(k) == IF k = "field" THEN 1 ELSE IF k = "time" THEN 2 ELSE 3

InOrder(issues) ==
    \A a \in 1..Len(issues) : \A b \in a..Len(issues) :
        KindRank(MsgKind(issues[a])) <= KindRank(MsgKind(issues[b]))

\* the first n of a list
FirstOf(issues, n) == [i \in 1..(IF Len(issues) < n THEN Len(issues) ELSE n) |-> issues[i]]

\* the string for a list of issues
Failed(issues) ==
    <<"FAILED - ">> \o NatText(Len(issues)) \o <<" issues: ">>
        \o JoinComma(FirstOf(issues, 3))

\* the verdict is the one the issues of the prefix call for
RightVerdict ==
    LET k == MissingCount + TimeCount + DayCount
    IN  /\ vpc = "returned"
        /\ Len(validation_issues) = k
        /\ InOrder(validation_issues)
        /\ (v_return = Passed(Len(vdata))) <=> (k = 0)
        /\ k > 0 => v_return = Failed(validation_issues)

\* C17 as stated: validate_bell_times_data returns PASSED with the length of
\* the collection exactly when the prefix has no issue, and otherwise FAILED
\* with the number of issues and the first three messages, field issues
\* before time issues before day issues.
C17_VerdictCountsIssues ==
    (VEnded /\ validator = "bell_times" /\ vdata # <<>>) => RightVerdict

\* C18: on an empty collection each validator returns its fixed failure
\* string, having made none of its checks.
C18_EmptyShortCircuits ==
    (vpc \notin {"idle", "called"} /\ vdata = <<>>) =>
        /\ vpc \in {"returned", "done"}
        /\ v_return = IF validator = "bell_times"
                      THEN <<"FAILED - No bell times data generated">>
                      ELSE IF validator = "liss"
                      THEN <<"FAILED - No LISS timetable data generated">>
                      ELSE <<"FAILED - No data generated">>
        /\ vchecked = <<>>
        /\ validation_issues = <<>>

\* C18 witness: validate_calendar_data returned its failure string for an
\* empty collection.
C18_Witness ==
    /\ vpc = "returned"
    /\ validator = "calendar"
    /\ vdata = <<>>
    /\ v_return = <<"FAILED - No data generated">>

----------------------------------------------------------------------------
(* Properties of parse_xml_bell_times: members and their structs *)

\* a member name that is missing or empty
NoName(n) == n = PyNone \/ n = PyStr(<<>>)

\* C26: every member of an emitted record was set by a name line and a value
\* span of the record's own struct: when a struct-close line emits a record,
\* none of its members was stored under a name, or from an accumulation,
\* left pending by a struct-open or struct-close line; and no emitted record
\* has a member whose name is missing or empty.
C26_MembersFromOwnStruct ==
    /\ [][structs' # structs => foreign = {}]_vars
    /\ [](\A k \in 1..Len(structs) : \A i \in 1..Len(structs[k]) :
             ~NoName(structs[k][i].name))

----------------------------------------------------------------------------
(* Properties of compare_bell_times: counting and absent fields *)

\* the keys both collections have, from the collections themselves
SharedKeys == DataKeys(xml_data) \cap DataKeys(json_data)

\* C27: for two non-empty collections every common key is compared once and
\* counted once, as a match or as a mismatch: each pass of the loop adds one
\* to exactly one of the counters for a common key not counted before, and
\* when the call returns matches + mismatches is the number of common keys,
\* the keys of one collection only being counted in neither.
C27_CommonKeysCountedOnce ==
    /\ []((cpc \in {"compare", "done"} /\ xml_data # <<>> /\ json_data # <<>>) =>
            /\ matches + mismatches + Len(todo) = Cardinality(SharedKeys)
            /\ {todo[i] : i \in 1..Len(todo)} \subseteq SharedKeys
            /\ \A a, b \in 1..Len(todo) : a # b => todo[a] # todo[b]
            /\ cpc = "done" =>
                  /\ todo = <<>>
                  /\ matches + mismatches = Cardinality(SharedKeys)
                  /\ matches + mismatches
                        = Cardinality(DataKeys(xml_data) \cup DataKeys(json_data))
                            - Cardinality(xml_only) - Cardinality(json_only))
    /\ [][(cpc = "compare" /\ todo # <<>>) =>
            /\ \/ matches' = matches + 1 /\ mismatches' = mismatches
               \/ matches' = matches /\ mismatches' = mismatches + 1
            /\ Head(todo) \in SharedKeys
            /\ \A i \in 1..Len(todo') : todo'[i] # Head(todo)]_vars

\* C27 witness: three keys, one of them common: one match, no mismatch, one
\* key in the first collection only and one in the second only.
C27_Witness ==
    /\ Compared
    /\ xml_data = <<RecA, RecP7>>
    /\ json_data = <<RecA, RecBare>>
    /\ xml_only # {}
    /\ json_only # {}
    /\ matches = 1
    /\ mismatches = 0

\* the record has the field
HasField(entry, f) == \E i \in 1..Len(entry) : entry[i].name = PyStr(<<f>>)

\* the value the record has for a field it has
ValueOf(entry, f) == (CHOOSE m \in {entry[i] : i \in 1..Len(entry)} : m.name = PyStr(<<f>>)).value

\* the six fields
SixFields == {"DayNumber", "DayName", "Period", "StartTime", "EndTime", "Type"}

\* C28: when a common key is compared, a field of the six that both records
\* lack counts as equal: the pair is a match when every field is either
\* lacking in both or present in both with the same value; a field that
\* exactly one of the two records has makes the pair a mismatch.
C28_AbsentFields ==
    [][(cpc = "compare" /\ todo # <<>>) =>
          LET x == LastWith(xml_data, Head(todo))
              j == LastWith(json_data, Head(todo))
          IN  /\ (\A f \in SixFields :
                     \/ ~HasField(x, f) /\ ~HasField(j, f)
                     \/ /\ HasField(x, f) /\ HasField(j, f)
                        /\ ValueOf(x, f) = ValueOf(j, f))
                  => (matches' = matches + 1 /\ mismatches' = mismatches)
              /\ (\E f \in SixFields : HasField(x, f) # HasField(j, f))
                  => (mismatches' = mismatches + 1 /\ matches' = matches)]_vars

\* C28 witness: two collections of the same two records, one of which lacks
\* Type, were counted as two matches.
C28_Witness ==
    /\ Compared
    /\ xml_data = <<RecNoType, RecP7>>
    /\ json_data = <<RecNoType, RecP7>>
    /\ matches = 2
    /\ mismatches = 0

----------------------------------------------------------------------------
(* SentralAPIClient._make_request *)

\* the largest retries a call is made with (3 when the caller gives none)
MaxRetries == 3

\* the Retry-After value taken when the header is absent
DefaultRetryAfter == <<"6", "0">>

\* 2 ** n
RECURSIVE Pow2(_)
Pow2(n) == IF n = 0 THEN 1 ELSE 2 * Pow2(n - 1)

\* entries of the log
Sleep(secs) == [ev |-> "sleep", secs |-> secs]

Transfer == [ev |-> "transfer", secs |-> 0]

\* the statuses with a branch of their own
SuccessStatuses == {200, 201}

RateLimited == 429

ServerErrors == {500, 502, 503, 504}

\* what a server may answer
Statuses == {200, 201, 204, 404, 429, 500, 502, 503, 504}

\* the body of a 200 or 201 response: valid JSON, text that is no JSON, or
\* valid JSON whose 'meta' is no container, so that 'total' in meta raises
\* TypeError
Bodies == {"json", "not_json", "json_bad_meta"}

\* the Retry-After header of a 429 response; "absent" when it has none
RetryAfters == {<<"absent">>, <<"0">>, <<"5">>, <<"-", "1">>, <<"soon">>}

\* the exceptions session.request raises
Exceptions == {"Timeout", "ConnectionError", "RequestException", "Exception"}

\* the outcomes of one transfer
Outcomes ==
    {[kind |-> "response", status |-> st, body |-> b, retry_after |-> <<"absent">>] :
        st \in SuccessStatuses, b \in Bodies}
    \cup {[kind |-> "response", status |-> RateLimited, body |-> "json", retry_after |-> h] :
             h \in RetryAfters}
    \cup {[kind |-> "response", status |-> st, body |-> "json", retry_after |-> <<"absent">>] :
             st \in Statuses \ (SuccessStatuses \cup {RateLimited})}
    \cup {[kind |-> e] : e \in Exceptions}

\* RetryAfterOf with no wait for a missing header
RetryAfterOf_NoDefault(resp) ==
    IF resp.retry_after = <<"absent">> THEN <<"0">> ELSE resp.retry_after

\* response.headers.get('Retry-After', '60')
RetryAfterOf(resp) ==
    IF resp.retry_after = <<"absent">> THEN DefaultRetryAfter ELSE resp.retry_after

\* BackoffWait without the growth
BackoffWait_Flat(a) == 2

\* wait_time = 2 ** attempt
BackoffWait(a) == Pow2(a)

\* what handling an outcome does: return a value; set last_exception and
\* reach attempt += 1 at the end of the loop body (a server error, or an
\* exception caught); or sleep and continue from the 429 branch
Returns(v) == [do |-> "return", value |-> v, slept |-> <<>>, exc |-> <<>>]

Fails(e) == [do |-> "next", value |-> "pending", slept |-> <<>>, exc |-> e]

Continues(secs) == [do |-> "continue", value |-> "pending", slept |-> <<Sleep(secs)>>, exc |-> <<>>]

\* IsServerError taking every status for a server error
IsServerError_Any(status) == TRUE

\* response.status_code in [500, 502, 503, 504]
IsServerError(status) == status \in ServerErrors

\* lines 279-365: the branches on the response, and the except clauses
Handle(resp, a, r) ==
    IF resp.kind # "response"
    THEN Fails(<<resp.kind>>)
    ELSE IF resp.status \in SuccessStatuses
    THEN IF resp.body = "json" THEN Returns("data")
         ELSE IF resp.body = "not_json" THEN Returns("None")
         ELSE Fails(<<"Unexpected error: ", "TypeError">>)
    ELSE IF resp.status = RateLimited
    THEN IF a < r
         THEN LET n == PyIntParse(RetryAfterOf(resp))
              IN  IF ~n.ok \/ n.n < 0
                  THEN Fails(<<"Unexpected error: ", "ValueError">>)
                  ELSE Continues(n.n)
         ELSE Returns("None")
    ELSE IF IsServerError(resp.status)
    THEN Fails(<<"Server error: ">> \o NatText(resp.status))
    ELSE Returns("None")

\* LoopGoesOn allowing one attempt more
LoopGoesOn_OneMore(a, r) == a <= r + 1

\* while attempt <= retries
LoopGoesOn(a, r) == a <= r

\* a caller calls _make_request
Request ==
    /\ rpc = "idle"
    /\ \E r \in 0..MaxRetries : retries' = r
    /\ attempt' = 0
    /\ last_exception' = <<"None">>
    /\ rlog' = <<>>
    /\ rpc' = "loop"
    /\ UNCHANGED <<response, req_return>>
    /\ UNCHANGED <<dvars, cvars, vvars, gvars, tvars>>

\* lines 229-263: the loop test, the backoff sleep of a retry, the transfer
Attempt ==
    /\ rpc = "loop"
    /\ LoopGoesOn(attempt, retries)
    /\ \E o \in Outcomes : response' = o
    /\ rlog' = rlog \o (IF attempt > 0 THEN <<Sleep(BackoffWait(attempt))>> ELSE <<>>)
                    \o <<Transfer>>
    /\ rpc' = "handle"
    /\ UNCHANGED <<retries, attempt, last_exception, req_return>>
    /\ UNCHANGED <<dvars, cvars, vvars, gvars, tvars>>

\* lines 279-367: the response or the exception is dealt with
HandleOutcome ==
    /\ rpc = "handle"
    /\ LET h == Handle(response, attempt, retries)
       IN  /\ rlog' = rlog \o h.slept
           /\ IF h.do = "return"
              THEN /\ req_return' = h.value
                   /\ rpc' = "done"
                   /\ UNCHANGED <<attempt, last_exception>>
              ELSE /\ attempt' = attempt + 1
                   /\ last_exception' = IF h.do = "next" THEN h.exc ELSE last_exception
                   /\ rpc' = "loop"
                   /\ UNCHANGED req_return
    /\ UNCHANGED <<retries, response>>
    /\ UNCHANGED <<dvars, cvars, vvars, gvars, tvars>>

\* lines 369-374: all retries exhausted
Exhausted ==
    /\ rpc = "loop"
    /\ ~LoopGoesOn(attempt, retries)
    /\ req_return' = "None"
    /\ rpc' = "done"
    /\ UNCHANGED <<retries, attempt, last_exception, response, rlog>>
    /\ UNCHANGED <<dvars, cvars, vvars, gvars, tvars>>

NextRequest ==
    \/ Request
    \/ Attempt
    \/ HandleOutcome
    \/ Exhausted

\* the method runs on: no step of it waits for anything but its own sleeps
\* and the timeout of its transfer
SpecRequest == Init /\ [][NextRequest]_vars /\ WF_vars(NextRequest)

----------------------------------------------------------------------------
(* Properties of _make_request *)

\* the transfers in a log
Transfers(log) == Len(SelectSeq(log, LAMBDA e : e.ev = "transfer"))

\* C22: a call of _make_request ends, having returned the response data or
\* None, after retries + 1 transfers at most, whatever the server answers.
C22_BoundedAttempts ==
    /\ [](Transfers(rlog) <= retries + 1)
    /\ [](attempt <= retries + 1)
    /\ []((rpc = "done") <=> (req_return \in {"data", "None"}))
    /\ <>(rpc = "done")

\* C22 witness: a call with the default retries ended with None after 4
\* transfers.
C22_Witness ==
    /\ rpc = "done"
    /\ retries = 3
    /\ Transfers(rlog) = 4
    /\ req_return = "None"

\* the outcome to deal with is one no retry is made for: a status that is
\* none of the seven, or a body of a 200 or 201 that is no JSON
NonRetryable ==
    /\ rpc = "handle"
    /\ response.kind = "response"
    /\ \/ response.status \notin {200, 201, 429, 500, 502, 503, 504}
       \/ response.status \in {200, 201} /\ response.body = "not_json"

\* C23: an outcome no retry is made for ends the call with None on the
\* attempt it occurs on, without a sleep; and once the call has ended there
\* is no transfer.
C23_NonRetryableEndsCall ==
    [][/\ NonRetryable =>
            /\ rpc' = "done"
            /\ req_return' = "None"
            /\ rlog' = rlog
            /\ attempt' = attempt
       /\ rpc = "done" => (rpc' = "done" /\ rlog' = rlog /\ req_return' = req_return)]_vars

\* C23 witness: a 404 on the third attempt ended the call with None after 3
\* transfers, with retries left.
C23_Witness ==
    /\ rpc = "done"
    /\ retries = 3
    /\ attempt = 2
    /\ response.kind = "response" /\ response.status = 404
    /\ Transfers(rlog) = 3
    /\ req_return = "None"

\* the outcome to deal with is a transient failure
Transient ==
    /\ rpc = "handle"
    /\ \/ response.kind \in {"Timeout", "ConnectionError"}
       \/ response.kind = "response" /\ response.status \in {429, 500, 502, 503, 504}

\* the backoff before retry 1, 2, 3, ...
Backoffs == <<2, 4, 8, 16, 32>>

\* C24: a transient failure on attempt k < retries is followed by another
\* attempt, and the transfer of retry j follows a sleep of 2^j seconds.
C24_TransientRetried ==
    /\ [][/\ (Transient /\ attempt < retries) =>
               /\ rpc' = "loop"
               /\ attempt' = attempt + 1
               /\ req_return' = "pending"
          /\ (rpc = "loop" /\ attempt >= 1 /\ rpc' = "handle") =>
               rlog' = rlog \o <<[ev |-> "sleep", secs |-> Backoffs[attempt]],
                                 [ev |-> "transfer", secs |-> 0]>>]_vars
    /\ \A n \in 1..(MaxRetries + 1) :
          (Transient /\ attempt < retries /\ Transfers(rlog) = n)
              ~> (Transfers(rlog) = n + 1)

\* C24 witness: with the default retries, four answers of 503: the sleeps
\* before the three retries were of 2, 4 and 8 seconds.
C24_Witness ==
    /\ rpc = "done"
    /\ retries = 3
    /\ response.kind = "response" /\ response.status = 503
    /\ rlog = <<Transfer, Sleep(2), Transfer, Sleep(4), Transfer, Sleep(8), Transfer>>

\* the seconds a Retry-After header asks for: 60 when it is absent
HeaderSecs(h) ==
    IF h = <<"absent">> THEN 60 ELSE IF h = <<"0">> THEN 0 ELSE 5

\* a 429 to deal with, its Retry-After absent or a number of seconds
Got429 ==
    /\ rpc = "handle"
    /\ response.kind = "response" /\ response.status = 429
    /\ response.retry_after \in {<<"absent">>, <<"0">>, <<"5">>}

\* C29: a 429 on attempt k < retries uses up one attempt and sleeps the
\* seconds of Retry-After, 60 when the header is absent; the next transfer
\* then follows the backoff sleep of 2^(k+1) seconds as well. A 429 on the
\* last attempt returns None without a sleep.
C29_RateLimitWaits ==
    [][/\ (Got429 /\ attempt < retries) =>
            /\ rlog' = Append(rlog, [ev |-> "sleep", secs |-> HeaderSecs(response.retry_after)])
            /\ attempt' = attempt + 1
            /\ rpc' = "loop"
       /\ (rpc = "loop" /\ rpc' = "handle" /\ response.kind = "response"
              /\ response.status = 429 /\ attempt >= 1) =>
            rlog' = rlog \o <<[ev |-> "sleep", secs |-> Backoffs[attempt]],
                              [ev |-> "transfer", secs |-> 0]>>
       /\ (rpc = "handle" /\ response.kind = "response" /\ response.status = 429
              /\ attempt = retries) =>
            /\ rpc' = "done"
            /\ req_return' = "None"
            /\ rlog' = rlog]_vars

\* C29 witness: a first answer of 429 without Retry-After: the call slept 60
\* seconds, then 2 seconds, then made its second transfer.
C29_Witness ==
    /\ rpc = "handle"
    /\ attempt = 1
    /\ rlog = <<Transfer, Sleep(60), Sleep(2), Transfer>>

----------------------------------------------------------------------------
(* generate_bell_times_json *)

\* the full pages an endpoint may hold
MaxPages == 1

\* the three endpoints, in the order they are paged
Endpoints == <<"days", "periods", "period_in_days">>

\* limit of the loop of an endpoint
Limit(e) == IF e = "period_in_days" THEN 200 ELSE 100

\* the numbers of records an endpoint may hold: full pages, and one more
Totals(e) == {k * Limit(e) + r : k \in 0..MaxPages, r \in {0, 1}}

\* the timetable days the period-in-day records refer to
TimetableDays == 10

\* the records of an endpoint are numbered from 1 in the order the API
\* returns them; record i of period_in_days refers to this day and period
DayIdOf(i) == 1 + ((i - 1) % TimetableDays)
PeriodIdOf(i) == 1 + ((i - 1) \div TimetableDays)

\* the page the API returns for limit and offset
PageLen(total, off, limit) ==
    IF total - off >= limit THEN limit
    ELSE IF total > off THEN total - off ELSE 0

Batch(total, off, limit) == [i \in 1..PageLen(total, off, limit) |-> off + i]

\* what client._make_request gives: None, a dict without 'data', a page
Responses(total, off, limit) ==
    {[kind |-> "None", data |-> <<>>],
     [kind |-> "no_data", data |-> <<>>],
     [kind |-> "page", data |-> Batch(total, off, limit)]}

\* not resp or 'data' not in resp
NoPage(resp) == resp.kind # "page"

\* items.extend(batch)
Extend_Replace(its, batch) == batch

Extend(its, batch) == its \o batch

\* one pass of a pagination loop
PageStep(resp, its, off, limit) ==
    IF NoPage(resp)
    THEN [items |-> its, offset |-> off,
          stop |-> IF resp.kind = "None" THEN "failed" ELSE "no_data"]
    ELSE IF resp.data = <<>>
    THEN [items |-> its, offset |-> off, stop |-> "empty"]
    ELSE IF Len(resp.data) < limit
    THEN [items |-> Extend(its, resp.data), offset |-> off, stop |-> "short"]
    ELSE [items |-> Extend(its, resp.data), offset |-> off + limit, stop |-> "none"]

\* what follows the loop of an endpoint
After(e) ==
    IF e = "days" THEN "periods"
    ELSE IF e = "periods" THEN "period_in_days" ELSE "build"

\* day_lookup.get(day_id, {}) ... .get('name', ...): the day when it was fetched
LookupGet(fetched, id) ==
    IF \E k \in 1..Len(fetched) : fetched[k] = id
    THEN [known |-> TRUE, id |-> id]
    ELSE [known |-> FALSE, id |-> 0]

\* sorted(period_in_days, key=sort_key): by day name, 'ZZZ' for a day that
\* is not in day_lookup, then by order
DayRank(days, i) ==
    IF LookupGet(days, DayIdOf(i)).known THEN DayIdOf(i) ELSE TimetableDays + 1

RECURSIVE SortedFrom(_, _, _)
SortedFrom(days, pids, r) ==
    IF r > TimetableDays + 1 THEN <<>>
    ELSE SelectSeq(pids, LAMBDA i : DayRank(days, i) = r)
            \o SortedFrom(days, pids, r + 1)

SortedItems(days, pids) == SortedFrom(days, pids, 1)

\* the entry built for one period-in-day record
Entry(days, periods, i) ==
    [item |-> i,
     DayName |-> LookupGet(days, DayIdOf(i)),
     Period |-> LookupGet(periods, PeriodIdOf(i))]

\* bell_times_data
BellTimes(days, periods, pids) ==
    LET sorted == SortedItems(days, pids)
    IN  [k \in 1..Len(sorted) |-> Entry(days, periods, sorted[k])]

\* what the try block may raise: a record without 'id', a file that cannot
\* be opened
BuildExceptions == {"KeyError", "OSError"}

\* the function is called; without a client it returns at once
Generate ==
    /\ gpc = "idle"
    /\ \E c \in BOOLEAN :
          /\ configured' = c
          /\ IF c
             THEN /\ \E d \in Totals("days"), p \in Totals("periods"),
                        q \in Totals("period_in_days") :
                        held' = [e \in {"days", "periods", "period_in_days"} |->
                                    IF e = "days" THEN d
                                    ELSE IF e = "periods" THEN p ELSE q]
                  /\ gpc' = Endpoints[1]
                  /\ UNCHANGED gen_return
             ELSE /\ gen_return' = [success |-> "False", code |-> 0, range |-> "N/A"]
                  /\ gpc' = "done"
                  /\ UNCHANGED held
    /\ UNCHANGED <<items, offset, requested, stopped, written, gen_exception>>
    /\ UNCHANGED <<dvars, cvars, vvars, rvars, tvars>>

\* one pass of the loop of the endpoint being paged
Fetch ==
    /\ gpc \in {"days", "periods", "period_in_days"}
    /\ \E resp \in Responses(held[gpc], offset, Limit(gpc)) :
          LET st == PageStep(resp, items[gpc], offset, Limit(gpc))
          IN  /\ requested' = [requested EXCEPT ![gpc] = Append(@, offset)]
              /\ items' = [items EXCEPT ![gpc] = st.items]
              /\ stopped' = [stopped EXCEPT ![gpc] = st.stop]
              /\ IF st.stop = "none"
                 THEN offset' = st.offset /\ UNCHANGED gpc
                 ELSE offset' = 0 /\ gpc' = After(gpc)
    /\ UNCHANGED <<configured, held, written, gen_exception, gen_return>>
    /\ UNCHANGED <<dvars, cvars, vvars, rvars, tvars>>

\* the list is built and written, or an exception is raised and caught
Build ==
    /\ gpc = "build"
    /\ \/ /\ written' = BellTimes(items["days"], items["periods"], items["period_in_days"])
          /\ gen_return' = [success |-> "True", code |-> 200, range |-> "days"]
          /\ UNCHANGED gen_exception
       \/ /\ gen_exception' \in BuildExceptions
          /\ gen_return' = [success |-> "False", code |-> 500, range |-> "N/A"]
          /\ UNCHANGED written
    /\ gpc' = "done"
    /\ UNCHANGED <<configured, held, items, offset, requested, stopped>>
    /\ UNCHANGED <<dvars, cvars, vvars, rvars, tvars>>

NextGenerate == Generate \/ Fetch \/ Build

SpecGenerate == Init /\ [][NextGenerate]_vars

----------------------------------------------------------------------------
(* Properties of generate_bell_times_json *)

\* records 1..n in order
FirstRecords(n) == [i \in 1..n |-> i]

\* C25: when a pagination loop is left, the last batch was empty or shorter
\* than limit, the offsets requested were 0, limit, 2*limit, ... and the
\* list collected holds every record of the endpoint, in order.
C25_AllPagesCollected ==
    \A e \in {"days", "periods", "period_in_days"} :
        stopped[e] # "none" =>
            /\ stopped[e] \in {"empty", "short"}
            /\ items[e] = FirstRecords(held[e])
            /\ requested[e] = [k \in 1..Len(requested[e]) |->
                                (k - 1) * (IF e = "period_in_days" THEN 200 ELSE 100)]

\* the records of the pages fetched before the loop of e was left
FetchedBefore(e) ==
    IF stopped[e] \in {"failed", "no_data"}
    THEN (Len(requested[e]) - 1) * (IF e = "period_in_days" THEN 200 ELSE 100)
    ELSE held[e]

\* C30: with a client and no exception the call returns (True, 200, ...)
\* whichever page requests failed; a failed request is followed by the next
\* endpoint's paging, and the list written has one entry for each
\* period-in-day record of the pages fetched before the first failure, its
\* day and period resolved only among the days and periods fetched.
C30_FailuresNotReported ==
    /\ [](gpc = "done" /\ configured /\ gen_exception = "None" =>
            /\ gen_return.success = "True"
            /\ gen_return.code = 200
            /\ \A e \in {"days", "periods", "period_in_days"} :
                  items[e] = FirstRecords(FetchedBefore(e))
            /\ Len(written) = FetchedBefore("period_in_days")
            /\ {written[k].item : k \in 1..Len(written)}
                  = 1..FetchedBefore("period_in_days")
            /\ \A k \in 1..Len(written) :
                  /\ written[k].DayName.known
                        <=> (1 + ((written[k].item - 1) % 10) <= FetchedBefore("days"))
                  /\ written[k].Period.known
                        <=> (1 + ((written[k].item - 1) \div 10) <= FetchedBefore("periods")))
    /\ [][\A e \in {"days", "periods", "period_in_days"} :
             (stopped[e] = "none" /\ stopped'[e] = "failed") =>
                 /\ gen_return' = gen_return
                 /\ gen_exception' = "None"
                 /\ gpc' = IF e = "days" THEN "periods"
                           ELSE IF e = "periods" THEN "period_in_days"
                           ELSE "build"]_vars

\* C30 witness: the request for the second page of period_in_days failed, as
\* did the first for days: the call returned (True, 200, ...) with the 200
\* entries of the first page, of 201 records held.
C30_Witness ==
    /\ gpc = "done"
    /\ gen_return.success = "True"
    /\ stopped["days"] = "failed"
    /\ stopped["period_in_days"] = "failed"
    /\ held["period_in_days"] = 201
    /\ Len(written) = 200

====
